----------------------------- MODULE RuleConfig -----------------------------
(***************************************************************************)
(* The life of one role link's configuration: RoleLogic registers and      *)
(* deletes it (src/routes/plugin.rs), browser tabs load, edit and save its *)
(* rule under optimistic locking (src/routes/admin.rs and                  *)
(* src/templates/role_config.html), and each save asks for a config_sync.  *)
(*                                                                         *)
(* A save is three statements on the server (UPDATE, SELECT of the new     *)
(* version, INSERT of the job) and a reply; a tab reads a snapshot and     *)
(* applies it when it arrives.                                             *)
(***************************************************************************)
EXTENDS Integers, FiniteSets

CONSTANTS
    Tabs,         \* browser tabs with the role's page
    Rules,        \* rule trees an admin may save
    Anyone,       \* the one with grant_on_any_player
    Unconfigured, \* the tree of a new row
    None,         \* no row, no answer
    MaxVersion,   \* bound on the saves of a registration, less with each one
    MaxFaults,    \* lost replies, failed statements and links created anew
    QuickReplies  \* does a save read its version before anybody else writes?

ASSUME MaxVersionAssumption   == MaxVersion \in Nat \ {0}
ASSUME MaxFaultsAssumption    == MaxFaults \in Nat
ASSUME AnyoneAssumption       == Anyone \in Rules
ASSUME UnconfiguredAssumption == Unconfigured \notin Rules
ASSUME QuickRepliesAssumption == QuickReplies \in BOOLEAN

VARIABLES
    row,      \* role_links: token, rule_tree, rule_tree_version
    live,     \* RoleLogic has a link for the role
    token,    \* the last token RoleLogic issued for the role
    queued,   \* a config_sync job for the role waits
    applied,  \* the rule that the last config_sync evaluated
    tab,
    faults

vars == <<row, live, token, queued, applied, tab, faults>>

Tree   == Rules \cup {Unconfigured}
Tokens == 1..(MaxFaults + 1)
\* born: the token that the row was created with; versions count from there.
Row  == [token : Tokens, rule : Tree, version : 1..MaxVersion, born : Tokens]
Version == [version : 1..MaxVersion, born : Tokens]
First   == [version |-> 1, born |-> 1]
\* GET data, as far as the page uses it.
Data == [rule : Tree, version : 1..MaxVersion, born : Tokens]

ASSUME NoneAssumption == None \notin Tree /\ None \notin Row /\ None \notin Data

At   == {"closed", "ready", "read", "enqueue", "reply"}

\* config: what the tab believes is saved; edit: its buffer; version: what it
\* will send; posted: the rule it has sent; answer: the version the server
\* read for it; snap: an answer of GET data that has not been applied yet;
\* aside: the buffer that doSave works on, once _edit is another one; born: the
\* row its version is of.
Tab  == [at : At, config : Tree, edit : Tree, dirty : BOOLEAN, version : 1..MaxVersion,
         posted : Tree, answer : Version, snap : Data \cup {None},
         aside : Tree \cup {None}, born : Tokens]
Closed == [at |-> "closed", config |-> Unconfigured, edit |-> Unconfigured, dirty |-> FALSE,
           version |-> 1, posted |-> Unconfigured, answer |-> First, snap |-> None, aside |-> None,
           born |-> 1]

TypeOK ==
    /\ row \in Row \cup {None}
    /\ live \in BOOLEAN
    /\ token \in Tokens
    /\ queued \in BOOLEAN
    /\ applied \in Tree
    /\ tab \in [Tabs -> Tab]
    /\ faults \in 0..MaxFaults

Init ==
    /\ row = None
    /\ live = TRUE
    /\ token = 1
    /\ queued = FALSE
    /\ applied = Unconfigured
    /\ tab = [t \in Tabs |-> Closed]
    /\ faults = 0

Fault == faults < MaxFaults /\ faults' = faults + 1

\* A save that has updated the row and has not read the version yet.
Reading == \E t \in Tabs : tab[t].at = "read"
Calm    == QuickReplies => ~Reading

-----------------------------------------------------------------------------
(* RoleLogic's calls                                                       *)

\* Mutant: a new row starts at version 0.
RegisterAtZero ==
    /\ Calm
    /\ live
    /\ row' = IF row = None
                 THEN [token |-> token, rule |-> Unconfigured, version |-> 0, born |-> token]
                 ELSE [row EXCEPT !.token = token]
    /\ row' # row
    /\ UNCHANGED <<live, token, queued, applied, tab, faults>>

\* POST /register: a new row has the column defaults, an old one keeps its
\* rule and its version and gets the token.
Register ==
    /\ Calm
    /\ live
    /\ row' = IF row = None
                 THEN [token |-> token, rule |-> Unconfigured, version |-> 1, born |-> token]
                 ELSE [row EXCEPT !.token = token]
    /\ row' # row
    /\ UNCHANGED <<live, token, queued, applied, tab, faults>>

\* The row goes, and its assignments with it.
Drop == row' = None /\ applied' = Unconfigured

\* The link is deleted: DELETE /config with its token, which may go missing.
Delete ==
    /\ Calm
    /\ live
    /\ live' = FALSE
    /\ \/ row # None /\ row.token = token /\ Drop
       \/ UNCHANGED <<row, applied>>
    /\ UNCHANGED <<token, queued, tab, faults>>

\* RoleLogic creates a link for the role again, with a token of its own.
Create ==
    /\ ~live
    /\ Fault
    /\ live' = TRUE
    /\ token' = token + 1
    /\ UNCHANGED <<row, queued, applied, tab>>

-----------------------------------------------------------------------------
(* The page                                                                *)

Adopt(t, r) ==
    tab' = [tab EXCEPT ![t].at = "ready", ![t].version = r.version, ![t].config = r.rule,
                       ![t].edit = IF r.rule = Unconfigured THEN Anyone ELSE r.rule,
                       ![t].dirty = (r.rule = Unconfigured), ![t].snap = None,
                       ![t].posted = Unconfigured,
                       ![t].born = r.born]

\* load(): GET data and the first rendering (also a reload).  The buffer of an
\* unconfigured role starts with "anyone", unsaved.
Load(t) ==
    /\ row # None
    /\ tab[t].at \in {"closed", "ready"}
    /\ Adopt(t, row)
    /\ UNCHANGED <<row, live, token, queued, applied, faults>>

\* The editors change the edit buffer in place, a save under way or not.
Edit(t, rule) ==
    /\ tab[t].at # "closed"
    /\ tab[t].edit # rule
    /\ tab' = [tab EXCEPT ![t].edit = rule, ![t].dirty = (rule # tab[t].config)]
    /\ UNCHANGED <<row, live, token, queued, applied, faults>>

\* refreshFromServer(): the server answers ...
Fetch(t) ==
    /\ tab[t].at # "closed"
    /\ tab[t].snap = None
    /\ row # None
    /\ tab' = [tab EXCEPT ![t].snap = [rule |-> row.rule, version |-> row.version,
                                       born |-> row.born]]
    /\ UNCHANGED <<row, live, token, queued, applied, faults>>

\* ... and the page takes a rule that differs, unless it has edits; a save
\* under way keeps the buffer it began with.
Apply(t) ==
    /\ tab[t].snap # None
    /\ IF tab[t].snap.rule # tab[t].config /\ ~tab[t].dirty
          THEN tab' = [tab EXCEPT ![t].config = tab[t].snap.rule, ![t].edit = tab[t].snap.rule,
                                  ![t].version = tab[t].snap.version, ![t].snap = None,
                                  ![t].born = tab[t].snap.born,
                                  ![t].aside = IF tab[t].at = "ready" \/ @ # None THEN @
                                               ELSE tab[t].edit]
          ELSE tab' = [tab EXCEPT ![t].snap = None]
    /\ UNCHANGED <<row, live, token, queued, applied, faults>>

-----------------------------------------------------------------------------
(* POST save                                                               *)

\* Mutant: UPDATE without the version in its WHERE.
MatchesAnyVersion(t) == row # None

Matches(t) == row # None /\ row.version = tab[t].version

\* Mutant: the rule is written and its version stays.
WrittenUnversioned(t) == [row EXCEPT !.rule = tab[t].edit]

Written(t) == [row EXCEPT !.rule = tab[t].edit, !.version = @ + 1]

\* UPDATE ... WHERE rule_tree_version = $4.  The button is live while the
\* page is dirty; the validator has accepted the rule.  When no row matches,
\* the answer is a toast (404 or 409) and nothing changes.
Save(t) ==
    /\ Calm
    /\ tab[t].at = "ready"
    /\ tab[t].dirty
    /\ tab[t].edit \in Rules
    /\ Matches(t)
    /\ row.version + row.born <= MaxVersion
    /\ row' = Written(t)
    /\ tab' = [tab EXCEPT ![t].at = "read", ![t].posted = tab[t].edit]
    /\ UNCHANGED <<live, token, queued, applied, faults>>

\* The page shows the error and stays as it is.
GiveUp(t) == tab' = [tab EXCEPT ![t].at = "ready", ![t].aside = None, ![t].answer = First]

\* A statement of its own, after the UPDATE has committed.  When the row is
\* gone by now the handler fails before it enqueues anything.
ReadVersion(t) ==
    /\ tab[t].at = "read"
    /\ \/ row # None /\ tab' = [tab EXCEPT ![t].at = "enqueue", ![t].answer = [version |-> row.version, born |-> row.born]]
                     /\ UNCHANGED faults
       \/ row = None /\ GiveUp(t) /\ UNCHANGED faults
       \/ Fault /\ GiveUp(t)
    /\ UNCHANGED <<row, live, token, queued, applied>>

\* Mutant: the job is not enqueued.
EnqueueSyncNot(t) ==
    /\ tab[t].at = "enqueue"
    /\ tab' = [tab EXCEPT ![t].at = "reply"]
    /\ UNCHANGED <<row, live, token, queued, applied, faults>>

\* enqueue_config_sync; a failure is logged and the save succeeds.
EnqueueSync(t) ==
    /\ tab[t].at = "enqueue"
    /\ tab' = [tab EXCEPT ![t].at = "reply"]
    /\ \/ queued' = TRUE /\ UNCHANGED faults
       \/ Fault /\ UNCHANGED queued
    /\ UNCHANGED <<row, live, token, applied>>

\* Mutant: the page counts its version up itself, besides the server.
SavedPlusOne(t) ==
    tab' = [tab EXCEPT ![t].at = "ready", ![t].version = tab[t].answer.version + 1,
                       ![t].config = IF tab[t].aside = None THEN tab[t].edit ELSE tab[t].aside,
                       ![t].dirty = FALSE, ![t].aside = None, ![t].answer = First,
                       ![t].born = tab[t].answer.born]

\* doSave() again: the baseline becomes the buffer as it is now.
Saved(t) ==
    tab' = [tab EXCEPT ![t].at = "ready", ![t].version = tab[t].answer.version,
                       ![t].config = IF tab[t].aside = None THEN tab[t].edit ELSE tab[t].aside,
                       ![t].dirty = FALSE, ![t].aside = None, ![t].answer = First,
                       ![t].born = tab[t].answer.born]

Reply(t) ==
    /\ tab[t].at = "reply"
    /\ Saved(t)
    /\ UNCHANGED <<row, live, token, queued, applied, faults>>

ReplyLost(t) ==
    /\ tab[t].at = "reply"
    /\ Fault
    /\ GiveUp(t)
    /\ UNCHANGED <<row, live, token, queued, applied>>

-----------------------------------------------------------------------------
\* A config_sync runs (RoleSync): it evaluates the rule it finds, or learns
\* that RoleLogic does not know the token and deletes the row.
ConfigSync ==
    /\ Calm
    /\ queued
    /\ queued' = FALSE
    /\ IF row # None /\ (~live \/ row.token # token)
          THEN Drop
          ELSE applied' = (IF row = None THEN applied ELSE row.rule) /\ UNCHANGED row
    /\ UNCHANGED <<live, token, tab, faults>>

\* Every 30 minutes: a config_sync for each row (src/tasks/reconcile.rs).
Reconcile ==
    /\ row # None
    /\ ~queued
    /\ queued' = TRUE
    /\ UNCHANGED <<row, live, token, applied, tab, faults>>

TabStep(t) ==
    \/ Load(t) \/ Fetch(t) \/ Apply(t)
    \/ \E rule \in Rules : Edit(t, rule)
    \/ Save(t) \/ ReadVersion(t) \/ EnqueueSync(t) \/ Reply(t) \/ ReplyLost(t)

Next ==
    \/ \E t \in Tabs : TabStep(t)
    \/ Register \/ Delete \/ Create \/ ConfigSync \/ Reconcile

Spec == Init /\ [][Next]_vars

-----------------------------------------------------------------------------
(* Properties                                                              *)

\* README: "two browser tabs editing the same role link can't silently clobber
\* each other": a save overwrites only a rule that its tab has shown as saved,
\* or that the tab wrote itself.  This is about one row; after a deletion the
\* versions start over, and a tab from before it may well match.
NoSilentClobber ==
    [][\A t \in Tabs : Save(t) /\ tab[t].born = row.born =>
           row.rule \in {tab[t].config, tab[t].posted}]_vars

\* A tab never holds a version that its row has not reached, so that a tab
\* that is behind is always refused.
TabNotAhead ==
    \A t \in Tabs :
        tab[t].at # "closed" /\ row # None /\ tab[t].born = row.born =>
            tab[t].version <= row.version

\* The button stays live during a save.  As long as the page has not taken a
\* newer rule meanwhile, a second click is refused (409) whenever it comes, so
\* that one save is applied once and nobody else's save is lost to its repeat.
SecondClickRefused ==
    \A t \in Tabs :
        tab[t].at \in {"read", "enqueue", "reply"} /\ tab[t].aside = None
            /\ row # None /\ tab[t].born = row.born => ~Matches(t)

\* The rule in force is the saved one, or a config_sync that will see it is
\* queued or about to be, as long as every statement succeeds.
SaveReachesSync ==
    faults = token - 1 /\ row # None =>
        \/ applied = row.rule
        \/ queued
        \/ \E t \in Tabs : tab[t].at \in {"read", "enqueue"}
=============================================================================
