------------------------------ MODULE RoleSync ------------------------------
(***************************************************************************)
(* The sync engine of src/services/sync.rs: sync_for_player and            *)
(* sync_for_role_link, step by step as they await the Auth Gateway,        *)
(* RoleLogic and Postgres, for the role links of one guild.                *)
(*                                                                         *)
(* role_assignments is this program's mirror of what RoleLogic holds.  The *)
(* two are written one after the other, in no common transaction, and both *)
(* syncs skip RoleLogic when the mirror already shows what they computed.  *)
(*                                                                         *)
(* RoleLogic and the Auth Gateway are external: they are modelled by the   *)
(* answers src/services/rolelogic.rs and auth_gateway.rs tell apart.       *)
(* A member's facts are one value, and a rule is the set of the values it  *)
(* accepts: {} is the unconfigured rule, Facts is grant_on_any_player.     *)
(***************************************************************************)
EXTENDS Integers, FiniteSets

CONSTANTS
    Links,         \* role links of the guild
    Players,       \* discord ids, in the order of ORDER BY discord_id
    Facts,         \* what a rule can tell apart of a linked player
    Unlinked,      \* no osu_users row
    NoRow,         \* no role_links row
    Workers,       \* job workers, over all replicas
    UserLimit,     \* user_limit of the link
    MaxGen,        \* how often RoleLogic may have created a link
    MaxChanges, MaxErrors, MaxLost  \* bounds, see Change, Error and Torn

ASSUME PlayersAssumption == Players \subseteq Nat /\ IsFiniteSet(Players)
ASSUME UnlinkedAssumption == Unlinked \notin Facts
ASSUME BoundsAssumption == /\ {UserLimit, MaxChanges, MaxErrors, MaxLost} \subseteq Nat
                           /\ MaxGen \in Nat \ {0}

VARIABLES
    \* Postgres
    fact,      \* osu_users and osu_stats of a player
    row,       \* role_links: token and rule
    mirror,    \* role_assignments, by link
    queue,     \* the jobs waiting (JobQueue), each in one row or in several
    \* RoleLogic, by link
    alive,     \* the link exists
    born,      \* the generation of its token
    users,     \* who holds the role
    off,       \* switched off or paused
    gate,      \* the shrink gate waits for an owner's confirmation
    \* Auth Gateway
    member,    \* in the guild and not opted out
    \* each worker
    task,
    \* what happened so far
    torn,      \* links of which a change was never written to the mirror
    changes, errors, lost  \* bounds

tables    == <<fact, row, mirror, queue>>
roleLogic == <<alive, born, users, off, gate>>
bounds    == <<torn, changes, errors, lost>>
vars      == <<tables, roleLogic, member, task, bounds>>

PlayerSync(p) == [kind |-> "player_sync", player |-> p]
ConfigSync(l) == [kind |-> "config_sync", link |-> l]
NoJob         == [kind |-> "none"]
Job           == {PlayerSync(p) : p \in Players} \cup {ConfigSync(l) : l \in Links}

Row  == [token : 1..MaxGen, tree : SUBSET Facts]
ASSUME NoRowAssumption == NoRow \notin Row

Plan == {"none", "add", "insert", "remove", "delete", "orphan"}
At   == {"free",
         "guilds", "rows", "linked", "assigned", "facts", "act",
         "link", "members", "info", "select", "compare", "put", "delete", "insert",
         "drain", "drain_put", "drain_delete", "orphan"}

\* The locals of a sync: what it has read so far, and where it stands.
Task == [at : At, job : Job \cup {NoJob},
         rows : [Links -> Row \cup {NoRow}], linked : BOOLEAN,
         assigned : SUBSET Links, plan : [Links -> Plan],
         members : SUBSET Players, want : SUBSET Players, seen : SUBSET Players]

Free == [at |-> "free", job |-> NoJob,
         rows |-> [l \in Links |-> NoRow], linked |-> FALSE,
         assigned |-> {}, plan |-> [l \in Links |-> "none"],
         members |-> {}, want |-> {}, seen |-> {}]

TypeOK ==
    /\ fact \in [Players -> Facts \cup {Unlinked}]
    /\ row \in [Links -> Row \cup {NoRow}]
    /\ mirror \in [Links -> SUBSET Players]
    /\ queue \subseteq Job
    /\ alive \in [Links -> BOOLEAN]
    /\ born \in [Links -> 1..MaxGen]
    /\ users \in [Links -> SUBSET Players]
    /\ off \in [Links -> BOOLEAN]
    /\ gate \in [Links -> BOOLEAN]
    /\ member \subseteq Players
    /\ task \in [Workers -> Task]
    /\ \A w \in Workers : task[w].at = "free" => task[w] = Free
    /\ torn \subseteq Links
    /\ changes \in 0..MaxChanges
    /\ errors \in 0..MaxErrors
    /\ lost \in 0..MaxLost

\* The first n players of S by id: ORDER BY discord_id LIMIT n.
FirstOf(S, n) == {p \in S : Cardinality({q \in S : q < p}) < n}

Linked(p) == fact[p] # Unlinked

\* Any earlier history of synced links, with whatever it left in the queue.
Init ==
    /\ fact \in [Players -> Facts \cup {Unlinked}]
    /\ row \in [Links -> [token : {1}, tree : SUBSET Facts]]
    /\ mirror \in [Links -> {S \in SUBSET Players : Cardinality(S) <= UserLimit}]
    /\ queue \in SUBSET Job
    /\ alive = [l \in Links |-> TRUE]
    /\ born = [l \in Links |-> 1]
    /\ users = mirror
    /\ off = [l \in Links |-> FALSE]
    /\ gate = [l \in Links |-> FALSE]
    /\ member \in SUBSET Players
    /\ task = [w \in Workers |-> Free]
    /\ torn = {}
    /\ changes = 0
    /\ errors = 0
    /\ lost = 0

\* Something outside changes; a request fails and has no effect; a reply, an
\* enqueue or a whole worker is lost.  Torn: and the mirror of the links in S
\* is not told of a change that RoleLogic has accepted.
Change == changes < MaxChanges /\ changes' = changes + 1 /\ UNCHANGED <<torn, errors, lost>>
Error  == errors < MaxErrors /\ errors' = errors + 1 /\ UNCHANGED <<torn, changes, lost>>
Torn(S) == /\ lost < MaxLost
           /\ lost' = lost + 1
           /\ torn' = torn \cup S
           /\ UNCHANGED <<changes, errors>>

\* Mutant: the locals of one sync live on into the next.
DoneDirty(w) == task' = [task EXCEPT ![w].at = "free"] /\ UNCHANGED queue

\* The dispatch returns Ok, or an error that puts the job back.
Done(w)  == task' = [task EXCEPT ![w] = Free] /\ UNCHANGED queue
Retry(w) == task' = [task EXCEPT ![w] = Free] /\ queue' = queue \cup {task[w].job}

Goto(w, at) == task' = [task EXCEPT ![w].at = at] /\ UNCHANGED queue

\* Another row may ask for the same: each enqueue inserts one of its own.
Start(w, j) ==
    /\ task[w].at = "free"
    /\ j \in queue
    /\ queue' \in {queue, queue \ {j}}
    /\ task' = [task EXCEPT ![w].job = j,
                            ![w].at = IF j.kind = "player_sync" THEN "guilds" ELSE "link"]
    /\ UNCHANGED <<fact, row, mirror, roleLogic, member, bounds>>

\* RoleLogic knows no link with the token that w read, or the link is off.
Gone(w, l)     == ~alive[l] \/ task[w].rows[l].token # born[l]
Disabled(w, l) == ~Gone(w, l) /\ off[l]
Accepts(w, l)  == ~Gone(w, l) /\ ~off[l]

\* DELETE FROM role_links by guild and role; the mirror goes with it (CASCADE).
DeleteRow(l) ==
    /\ row' = [row EXCEPT ![l] = NoRow]
    /\ mirror' = [mirror EXCEPT ![l] = {}]

\* delete_orphan_role_link: "best-effort".
RemoveOrphan(l) == \/ DeleteRow(l) /\ UNCHANGED bounds
                   \/ Error /\ UNCHANGED <<row, mirror>>

-----------------------------------------------------------------------------
(* sync_for_player                                                         *)

FetchGuilds(w) ==
    /\ task[w].at = "guilds"
    /\ IF task[w].job.player \in member THEN Goto(w, "rows") ELSE Done(w)
    /\ UNCHANGED <<fact, row, mirror, roleLogic, member, bounds>>

ReadRows(w) ==
    /\ task[w].at = "rows"
    /\ IF \A l \in Links : row[l] = NoRow
          THEN Done(w)
          ELSE /\ task' = [task EXCEPT ![w].rows = row, ![w].at = "linked"]
               /\ UNCHANGED queue
    /\ UNCHANGED <<fact, row, mirror, roleLogic, member, bounds>>

ReadLinked(w) ==
    /\ task[w].at = "linked"
    /\ task' = [task EXCEPT ![w].linked = Linked(task[w].job.player), ![w].at = "assigned"]
    /\ UNCHANGED <<tables, roleLogic, member, bounds>>

ReadAssigned(w) ==
    /\ task[w].at = "assigned"
    /\ task' = [task EXCEPT
                   ![w].assigned = {l \in Links : task[w].job.player \in mirror[l]},
                   ![w].at = "facts"]
    /\ UNCHANGED <<tables, roleLogic, member, bounds>>

\* grant_on_any_player looks at `linked`, every other rule at the facts.
Decision(w, l) ==
    LET t         == task[w]
        qualifies == IF t.rows[l].tree = Facts THEN t.linked
                     ELSE fact[t.job.player] \in t.rows[l].tree
    IN  CASE t.rows[l] = NoRow                   -> "none"
          [] t.rows[l] # NoRow /\ qualifies      -> IF l \in t.assigned THEN "none" ELSE "add"
          [] t.rows[l] # NoRow /\ ~qualifies     -> IF l \in t.assigned THEN "remove" ELSE "none"

Decide(w) ==
    /\ task[w].at = "facts"
    /\ task' = [task EXCEPT ![w].plan = [l \in Links |-> Decision(w, l)], ![w].at = "act"]
    /\ UNCHANGED <<tables, roleLogic, member, bounds>>

\* The actions of the links run concurrently; each ends on its own.
Then(w, l, next) == task' = [task EXCEPT ![w].plan[l] = next]

Full(l, p) == p \notin users[l] /\ Cardinality(users[l]) >= UserLimit

\* add_user.  Every error but "link gone" is logged and forgotten.
AddUser(w, l) ==
    LET p == task[w].job.player IN
    /\ task[w].at = "act" /\ task[w].plan[l] = "add"
    /\ \/ Gone(w, l) /\ Then(w, l, "orphan") /\ UNCHANGED <<users, bounds>>
       \/ (Disabled(w, l) \/ (Accepts(w, l) /\ Full(l, p)))
             /\ Then(w, l, "none") /\ UNCHANGED <<users, bounds>>
       \/ /\ Accepts(w, l) /\ ~Full(l, p)
          /\ users' = [users EXCEPT ![l] = @ \cup {p}]
          /\ \/ Then(w, l, "insert") /\ UNCHANGED bounds
             \/ Then(w, l, "none") /\ Torn({l})
       \/ Error /\ Then(w, l, "none") /\ UNCHANGED users
    /\ UNCHANGED <<tables, alive, born, off, gate, member>>

RemoveUser(w, l) ==
    /\ task[w].at = "act" /\ task[w].plan[l] = "remove"
    /\ \/ Gone(w, l) /\ Then(w, l, "orphan") /\ UNCHANGED <<users, bounds>>
       \/ Disabled(w, l) /\ Then(w, l, "none") /\ UNCHANGED <<users, bounds>>
       \/ /\ Accepts(w, l)
          /\ users' = [users EXCEPT ![l] = @ \ {task[w].job.player}]
          /\ \/ Then(w, l, "delete") /\ UNCHANGED bounds
             \/ Then(w, l, "none") /\ Torn({l})
       \/ Error /\ Then(w, l, "none") /\ UNCHANGED users
    /\ UNCHANGED <<tables, alive, born, off, gate, member>>

\* INSERT ... ON CONFLICT DO NOTHING.  It waits for a transaction that is
\* replacing the row.  That it fails goes unnoticed, be it for a link that is
\* gone (foreign key) or for whatever else.
InsertAssignment(w, l) ==
    LET p == task[w].job.player IN
    /\ task[w].at = "act" /\ task[w].plan[l] = "insert"
    /\ \A v \in Workers : ~(task[v].at = "insert" /\ task[v].job.link = l /\ p \in task[v].seen)
    /\ \/ mirror' = (IF row[l] = NoRow THEN mirror ELSE [mirror EXCEPT ![l] = @ \cup {p}])
          /\ UNCHANGED bounds
       \/ Torn({l}) /\ UNCHANGED mirror
    /\ Then(w, l, "none")
    /\ UNCHANGED <<fact, row, queue, roleLogic, member>>

\* Mutant: the role is taken away and stays on the books.
DeleteAssignmentNot(w, l) ==
    /\ task[w].at = "act" /\ task[w].plan[l] = "delete"
    /\ Then(w, l, "none")
    /\ UNCHANGED <<tables, roleLogic, member, bounds>>

DeleteAssignment(w, l) ==
    /\ task[w].at = "act" /\ task[w].plan[l] = "delete"
    /\ \/ mirror' = [mirror EXCEPT ![l] = @ \ {task[w].job.player}] /\ UNCHANGED bounds
       \/ Torn({l}) /\ UNCHANGED mirror
    /\ Then(w, l, "none")
    /\ UNCHANGED <<fact, row, queue, roleLogic, member>>

DeleteOrphanOf(w, l) ==
    /\ task[w].at = "act" /\ task[w].plan[l] = "orphan"
    /\ RemoveOrphan(l)
    /\ Then(w, l, "none")
    /\ UNCHANGED <<fact, queue, roleLogic, member>>

EndPlayerSync(w) ==
    /\ task[w].at = "act"
    /\ \A l \in Links : task[w].plan[l] = "none"
    /\ Done(w)
    /\ UNCHANGED <<fact, row, mirror, roleLogic, member, bounds>>

-----------------------------------------------------------------------------
(* sync_for_role_link                                                      *)

ReadLink(w) ==
    LET l == task[w].job.link IN
    /\ task[w].at = "link"
    /\ IF row[l] = NoRow
          THEN Done(w)
          ELSE /\ task' = [task EXCEPT
                              ![w].rows = row,
                              ![w].at = IF row[l].tree = {} THEN "drain" ELSE "members"]
               /\ UNCHANGED queue
    /\ UNCHANGED <<fact, row, mirror, roleLogic, member, bounds>>

FetchMembers(w) ==
    /\ task[w].at = "members"
    /\ task' = [task EXCEPT ![w].members = member,
                            ![w].at = IF member = {} THEN "drain" ELSE "info"]
    /\ UNCHANGED <<tables, roleLogic, member, bounds>>

\* Mutant: a gateway failure counts as "in no guild" and "no members".
ReadFailsToNobody(w) ==
    /\ task[w].at \in {"guilds", "members"}
    /\ Error
    /\ IF task[w].at = "guilds" THEN Done(w) ELSE Goto(w, "drain")
    /\ UNCHANGED <<fact, row, mirror, roleLogic, member>>

\* A failure of the gateway, or of a statement before anything is sent to
\* RoleLogic, bubbles up (`?`), whichever sync asked.
ReadFails(w) ==
    /\ task[w].at \in {"guilds", "rows", "linked", "assigned", "facts",
                       "link", "members", "select", "compare", "drain"}
    /\ Error
    /\ Retry(w)
    /\ UNCHANGED <<fact, row, mirror, roleLogic, member>>

\* Mutant: a link that RoleLogic does not know is left alone.
GetUserInfoKeepsOrphan(w) ==
    LET l == task[w].job.link IN
    /\ task[w].at = "info"
    /\ \/ (Gone(w, l) \/ Disabled(w, l)) /\ Done(w) /\ UNCHANGED bounds
       \/ Accepts(w, l) /\ Goto(w, "select") /\ UNCHANGED bounds
       \/ Error /\ Retry(w)
    /\ UNCHANGED <<fact, row, mirror, roleLogic, member>>

GetUserInfo(w) ==
    LET l == task[w].job.link IN
    /\ task[w].at = "info"
    /\ \/ Gone(w, l) /\ Goto(w, "orphan") /\ UNCHANGED bounds
       \/ Disabled(w, l) /\ Done(w) /\ UNCHANGED bounds
       \/ Accepts(w, l) /\ Goto(w, "select") /\ UNCHANGED bounds
       \/ Error /\ Retry(w)
    /\ UNCHANGED <<fact, row, mirror, roleLogic, member>>

SelectQualifying(w) ==
    LET t == task[w]
        S == {p \in t.members : Linked(p) /\ fact[p] \in t.rows[t.job.link].tree}
    IN
    /\ t.at = "select"
    /\ task' = [task EXCEPT ![w].want = FirstOf(S, UserLimit), ![w].at = "compare"]
    /\ UNCHANGED <<tables, roleLogic, member, bounds>>

\* Mutant: nothing to do when everyone wanted is assigned already.
CompareSubset(w) ==
    /\ task[w].at = "compare"
    /\ IF task[w].want \subseteq mirror[task[w].job.link] THEN Done(w) ELSE Goto(w, "put")
    /\ UNCHANGED <<fact, row, mirror, roleLogic, member, bounds>>

\* The short-circuit: "already equals what's assigned".
Compare(w) ==
    /\ task[w].at = "compare"
    /\ IF mirror[task[w].job.link] = task[w].want THEN Done(w) ELSE Goto(w, "put")
    /\ UNCHANGED <<fact, row, mirror, roleLogic, member, bounds>>

\* upload_users(S): the set is replaced as a whole, or held by the shrink gate.
Put(w, S, next) ==
    LET l    == task[w].job.link
        held == gate[l] /\ ~(users[l] \subseteq S)
    IN
    /\ \/ Gone(w, l) /\ Goto(w, "orphan") /\ UNCHANGED <<users, bounds>>
       \/ (Disabled(w, l) \/ (Accepts(w, l) /\ held)) /\ Done(w) /\ UNCHANGED <<users, bounds>>
       \/ /\ Accepts(w, l) /\ ~held
          /\ users' = [users EXCEPT ![l] = S]
          /\ \/ Goto(w, next) /\ UNCHANGED bounds
             \/ Retry(w) /\ Torn({l})
       \/ Error /\ Retry(w) /\ UNCHANGED users
    /\ UNCHANGED <<fact, row, mirror, alive, born, off, gate, member>>

PutUsers(w) == task[w].at = "put" /\ Put(w, task[w].want, "delete")

\* The transaction, at READ COMMITTED: its DELETE removes the rows it sees ...
DeleteRows(w) ==
    /\ task[w].at = "delete"
    /\ task' = [task EXCEPT ![w].seen = mirror[task[w].job.link], ![w].at = "insert"]
    /\ UNCHANGED <<tables, roleLogic, member, bounds>>

\* ... and its INSERT has no ON CONFLICT: a row that another transaction has
\* inserted meanwhile stays, and is a unique violation if it is wanted here,
\* too.  A row that this transaction removed is no longer another one's to
\* remove.
InsertRows(w) ==
    LET t     == task[w]
        l     == t.job.link
        fresh == mirror[l] \ t.seen
        fails == t.want # {} /\ (row[l] = NoRow \/ fresh \cap t.want # {})
        Trim(u) == IF u.at = "insert" /\ u.job.link = l THEN [u EXCEPT !.seen = @ \ t.seen] ELSE u
    IN
    /\ t.at = "insert"
    /\ \/ fails /\ Retry(w) /\ UNCHANGED mirror
       \/ /\ ~fails
          /\ mirror' = [mirror EXCEPT ![l] = fresh \cup t.want]
          /\ task' = [v \in Workers |-> IF v = w THEN Free ELSE Trim(task[v])]
          /\ UNCHANGED queue
    /\ UNCHANGED <<fact, row, roleLogic, member, bounds>>

\* drain_to_empty
CheckAny(w) ==
    /\ task[w].at = "drain"
    /\ IF mirror[task[w].job.link] = {} THEN Done(w) ELSE Goto(w, "drain_put")
    /\ UNCHANGED <<fact, row, mirror, roleLogic, member, bounds>>

PutNobody(w) == task[w].at = "drain_put" /\ Put(w, {}, "drain_delete")

ClearMirror(w) ==
    /\ task[w].at = "drain_delete"
    /\ mirror' = [mirror EXCEPT ![task[w].job.link] = {}]
    /\ Done(w)
    /\ UNCHANGED <<fact, row, roleLogic, member, bounds>>

DeleteOrphan(w) ==
    /\ task[w].at = "orphan"
    /\ RemoveOrphan(task[w].job.link)
    /\ Done(w)
    /\ UNCHANGED <<fact, roleLogic, member>>

\* A call of w on l was accepted and its mirror write is still to come.
IsWriting(w, l) ==
    \/ task[w].plan[l] \in {"insert", "delete"}
    \/ task[w].at \in {"delete", "insert", "drain_delete"} /\ task[w].job.link = l

\* The worker dies and the reaper puts the job back (JobQueue), or a statement
\* fails after RoleLogic has been changed and the job is retried.
Crash(w) ==
    /\ task[w].at # "free"
    /\ Torn({l \in Links : IsWriting(w, l)})
    /\ Retry(w)
    /\ UNCHANGED <<fact, row, mirror, roleLogic, member>>

-----------------------------------------------------------------------------
(* What happens around the syncs                                           *)

\* A write to Postgres that enqueues a job after it has committed: the
\* process may die, or the enqueue fail, in between.
WithJob(j) == \/ Change /\ queue' = queue \cup {j}
              \/ /\ changes < MaxChanges /\ changes' = changes + 1
                 /\ lost < MaxLost /\ lost' = lost + 1
                 /\ UNCHANGED <<torn, errors, queue>>

\* A player links, unlinks or is refreshed.
ChangeFact(p, f) ==
    /\ fact[p] # f
    /\ fact' = [fact EXCEPT ![p] = f]
    /\ WithJob(PlayerSync(p))
    /\ UNCHANGED <<row, mirror, roleLogic, member, task>>

\* p's osu! account is linked to another Discord account: the guard of
\* upsert_user_profile drops p's row, and no job is enqueued for p.
Sever(p) ==
    /\ Change
    /\ Linked(p)
    /\ fact' = [fact EXCEPT ![p] = Unlinked]
    /\ UNCHANGED <<row, mirror, queue, roleLogic, member, task>>

\* A member joins, leaves, opts out or in.  Nobody tells this program.
ChangeMember(p) ==
    /\ Change
    /\ member' = IF p \in member THEN member \ {p} ELSE member \cup {p}
    /\ UNCHANGED <<tables, roleLogic, task>>

SaveRule(l, tree) ==
    /\ row[l] # NoRow
    /\ row[l].tree # tree
    /\ row' = [row EXCEPT ![l].tree = tree]
    /\ WithJob(ConfigSync(l))
    /\ UNCHANGED <<fact, mirror, roleLogic, member, task>>

\* A config_sync for every link, every 30 minutes.
Reconcile ==
    LET jobs == {ConfigSync(l) : l \in {k \in Links : row[k] # NoRow}} IN
    /\ ~(jobs \subseteq queue)
    /\ queue' = queue \cup jobs
    /\ UNCHANGED <<fact, row, mirror, roleLogic, member, task, bounds>>

SwitchLink(l) ==
    /\ Change
    /\ alive[l]
    /\ off' = [off EXCEPT ![l] = ~@]
    /\ UNCHANGED <<tables, alive, born, users, gate, member, task>>

CloseGate(l) ==
    /\ Change
    /\ alive[l] /\ ~gate[l]
    /\ gate' = [gate EXCEPT ![l] = TRUE]
    /\ UNCHANGED <<tables, alive, born, users, off, member, task>>

Confirm(l) ==
    /\ gate[l]
    /\ gate' = [gate EXCEPT ![l] = FALSE]
    /\ UNCHANGED <<tables, alive, born, users, off, member, task, bounds>>

\* RoleLogic deletes the link and calls DELETE /config with its token, which
\* goes missing when this program is not reachable.
UpstreamDelete(l) ==
    /\ Change
    /\ alive[l]
    /\ alive' = [alive EXCEPT ![l] = FALSE]
    /\ users' = [users EXCEPT ![l] = {}]
    /\ \/ row[l] # NoRow /\ row[l].token = born[l] /\ DeleteRow(l)
       \/ UNCHANGED <<row, mirror>>
    /\ UNCHANGED <<fact, queue, born, off, gate, member, task>>

\* RoleLogic creates a link for the same role, with a token of its own ...
UpstreamCreate(l) ==
    /\ ~alive[l]
    /\ born[l] < MaxGen
    /\ alive' = [alive EXCEPT ![l] = TRUE]
    /\ born' = [born EXCEPT ![l] = @ + 1]
    /\ off' = [off EXCEPT ![l] = FALSE]
    /\ gate' = [gate EXCEPT ![l] = FALSE]
    /\ UNCHANGED <<tables, users, member, task, bounds>>

\* ... and calls POST /register: a row that is still there gets the new token
\* and keeps everything else.
Register(l) ==
    /\ alive[l]
    /\ row[l] # NoRow => row[l].token # born[l]
    /\ row' = [row EXCEPT ![l] = [token |-> born[l],
                                  tree |-> IF row[l] = NoRow THEN {} ELSE row[l].tree]]
    /\ UNCHANGED <<fact, mirror, queue, roleLogic, member, task, bounds>>

-----------------------------------------------------------------------------
PlayerStep(w) ==
    \/ FetchGuilds(w) \/ ReadRows(w) \/ ReadLinked(w) \/ ReadAssigned(w) \/ Decide(w)
    \/ \E l \in Links : \/ AddUser(w, l) \/ InsertAssignment(w, l)
                        \/ RemoveUser(w, l) \/ DeleteAssignment(w, l)
                        \/ DeleteOrphanOf(w, l)
    \/ EndPlayerSync(w)

ConfigStep(w) ==
    \/ ReadLink(w) \/ FetchMembers(w) \/ GetUserInfo(w) \/ SelectQualifying(w)
    \/ Compare(w) \/ PutUsers(w) \/ DeleteRows(w) \/ InsertRows(w)
    \/ CheckAny(w) \/ PutNobody(w) \/ ClearMirror(w) \/ DeleteOrphan(w)

Surroundings ==
    \/ \E p \in Players : \/ \E f \in Facts \cup {Unlinked} : ChangeFact(p, f)
                          \/ Sever(p) \/ ChangeMember(p)
    \/ \E l \in Links : \/ \E tree \in SUBSET Facts : SaveRule(l, tree)
                        \/ SwitchLink(l) \/ CloseGate(l) \/ Confirm(l)
                        \/ UpstreamDelete(l) \/ UpstreamCreate(l) \/ Register(l)
    \/ Reconcile

Next ==
    \/ \E w \in Workers : \/ \E j \in Job : Start(w, j)
                          \/ PlayerStep(w) \/ ConfigStep(w)
                          \/ ReadFails(w) \/ Crash(w)
    \/ Surroundings

Spec == Init /\ [][Next]_vars

(***************************************************************************)
(* Jobs are claimed in the order of their ids, so none waits for ever; a   *)
(* claimed one runs (HTTP timeouts); reconcile ticks; an owner confirms;   *)
(* RoleLogic registers a link it has created.                              *)
(***************************************************************************)
Fairness ==
    /\ \A j \in Job : SF_vars(\E w \in Workers : Start(w, j))
    /\ \A w \in Workers : WF_vars(PlayerStep(w) \/ ConfigStep(w))
    /\ \A l \in Links : WF_vars(Confirm(l)) /\ WF_vars(Register(l))
    /\ WF_vars(Reconcile)

FairSpec == Spec /\ Fairness

-----------------------------------------------------------------------------
(* Properties                                                              *)

Qualifying(l) == IF row[l] = NoRow THEN {}
                 ELSE {p \in member : Linked(p) /\ fact[p] \in row[l].tree}
Desired(l)    == FirstOf(Qualifying(l), UserLimit)

\* The row is registered with the live link, so that syncs can reach it.
InService(l) == row[l] # NoRow /\ alive[l] /\ row[l].token = born[l]

\* No change of l is missing from its mirror, and the link was never created
\* anew behind a row that stayed: else the short-circuits can rest on a mirror
\* that is wrong, and stay with it (README, Departures).
Sound(l) == l \notin torn /\ born[l] = 1

\* role_assignments shows what RoleLogic holds whenever no write is between
\* the two: the short-circuits of both syncs rest on it.
MirrorTracksRemote == \A l \in Links :
    Sound(l) /\ InService(l) /\ ~(\E w \in Workers : IsWriting(w, l)) => mirror[l] = users[l]

\* sync.rs: "we never clear a role on a transient lookup failure", and nobody
\* is given one by it either.  While nothing outside changes, whatever fails,
\* crashes or overlaps, a role is granted only to those who qualify and taken
\* from nobody who should have it.
OnlyJustifiedChanges ==
    [][\A l \in Links : changes' = 0 =>
          /\ users'[l] \ users[l] \subseteq Qualifying(l)
          /\ (users[l] \ users'[l]) \cap Desired(l) = {}]_vars

\* reconcile.rs: a missed dispatch "can't leave assignments diverged forever":
\* whatever calls fail and jobs get lost, RoleLogic at last holds for each link
\* that can be reached the set that the rule, the facts and the membership
\* call for.
Converges == \A l \in Links :
    <>[](Sound(l) /\ InService(l) /\ ~off[l] => users[l] = Desired(l))

\* sync.rs, Convention 47: a row whose link RoleLogic has deleted without
\* telling us, or has replaced, does not stay, unless its rule grants nobody
\* or there is nobody in the guild: then no sync asks RoleLogic about it.
Orphaned(l) == row[l] # NoRow /\ ~InService(l)

OrphansGo == \A l \in Links :
    <>[](Orphaned(l) => row[l].tree = {} \/ member = {})
=============================================================================
