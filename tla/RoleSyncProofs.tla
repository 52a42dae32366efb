--------------------------- MODULE RoleSyncProofs ---------------------------
(***************************************************************************)
(* What the sync engine keeps for every number of links, players, workers, *)
(* changes and errors.                                                     *)
(***************************************************************************)
EXTENDS RoleSync, TLAPS

-----------------------------------------------------------------------------
(* What a step of a worker does to its locals                              *)

\* Worker w alone has moved.
Others(w) == /\ task' \in [Workers -> Task]
             /\ \A v \in Workers \ {w} : task'[v] = task[v]

\* Whom SELECT finds: the members of the guild that the rule accepts.
Chosen(t) == {p \in t.members : Linked(p) /\ fact[p] \in t.rows[t.job.link].tree}

LEMMA TaskFields ==
    ASSUME NEW t \in Task
    PROVE  /\ t.at \in At /\ t.job \in Job \cup {NoJob}
           /\ t.rows \in [Links -> Row \cup {NoRow}] /\ t.linked \in BOOLEAN
           /\ t.assigned \subseteq Links /\ t.plan \in [Links -> Plan]
           /\ t.members \subseteq Players /\ t.want \subseteq Players
           /\ t.seen \subseteq Players
BY DEF Task

LEMMA FreeType == Free \in Task
BY DEF Free, Task, At, Plan

\* The sync is over, for good or until the job is claimed again.
LEMMA EndEffect ==
    ASSUME task \in [Workers -> Task], NEW w \in Workers, Done(w) \/ Retry(w)
    PROVE  Others(w) /\ task'[w] = Free
BY FreeType DEF Done, Retry, Others

\* A step to another point of the sync.
LEMMA GotoEffect ==
    ASSUME task \in [Workers -> Task], NEW w \in Workers, NEW at \in At,
           Goto(w, at)
    PROVE  /\ Others(w) /\ queue' = queue
           /\ task'[w].at = at /\ task'[w].job = task[w].job
           /\ task'[w].rows = task[w].rows /\ task'[w].linked = task[w].linked
           /\ task'[w].assigned = task[w].assigned
           /\ task'[w].plan = task[w].plan /\ task'[w].members = task[w].members
           /\ task'[w].want = task[w].want /\ task'[w].seen = task[w].seen
<1> DEFINE t == [task[w] EXCEPT !.at = at]
<1>1. /\ t \in Task
      /\ t.at = at /\ t.job = task[w].job /\ t.rows = task[w].rows
      /\ t.linked = task[w].linked /\ t.assigned = task[w].assigned
      /\ t.plan = task[w].plan /\ t.members = task[w].members
      /\ t.want = task[w].want /\ t.seen = task[w].seen
  <2>1. task[w] \in Task
    OBVIOUS
  <2>2. QED
    BY <2>1 DEF Task, At
<1>2. task' = [task EXCEPT ![w] = t] /\ queue' = queue
  BY DEF Goto
<1> HIDE DEF t
<1>3. QED
  BY <1>1, <1>2 DEF Others

\* The next step of one action among those of the links.
LEMMA ThenEffect ==
    ASSUME task \in [Workers -> Task], NEW w \in Workers, NEW l \in Links, NEW next \in Plan,
           Then(w, l, next)
    PROVE  /\ Others(w)
           /\ task'[w].plan = [task[w].plan EXCEPT ![l] = next]
           /\ task'[w].at = task[w].at /\ task'[w].job = task[w].job
           /\ task'[w].rows = task[w].rows /\ task'[w].linked = task[w].linked
           /\ task'[w].assigned = task[w].assigned
           /\ task'[w].members = task[w].members /\ task'[w].want = task[w].want
           /\ task'[w].seen = task[w].seen
<1> DEFINE t == [task[w] EXCEPT !.plan = [task[w].plan EXCEPT ![l] = next]]
<1>1. /\ t \in Task
      /\ t.plan = [task[w].plan EXCEPT ![l] = next] /\ t.at = task[w].at
      /\ t.job = task[w].job /\ t.rows = task[w].rows
      /\ t.linked = task[w].linked /\ t.assigned = task[w].assigned
      /\ t.members = task[w].members /\ t.want = task[w].want
      /\ t.seen = task[w].seen
  <2>1. task[w] \in Task /\ [task[w].plan EXCEPT ![l] = next] \in [Links -> Plan]
    BY DEF Task
  <2>2. QED
    BY <2>1 DEF Task, At
<1>2. task' = [task EXCEPT ![w] = t]
  BY DEF Then
<1> HIDE DEF t
<1>3. QED
  BY <1>1, <1>2 DEF Others

\* A worker takes a job ...
LEMMA StartEffect ==
    ASSUME task \in [Workers -> Task], NEW w \in Workers, NEW j \in Job,
           Start(w, j)
    PROVE  /\ Others(w) /\ queue' \subseteq queue
           /\ task'[w].at = IF j.kind = "player_sync" THEN "guilds" ELSE "link"
           /\ task'[w].job = j /\ task'[w].rows = task[w].rows
           /\ task'[w].linked = task[w].linked
           /\ task'[w].assigned = task[w].assigned
           /\ task'[w].plan = task[w].plan /\ task'[w].members = task[w].members
           /\ task'[w].want = task[w].want /\ task'[w].seen = task[w].seen
<1> DEFINE t == [task[w] EXCEPT
                    !.at = IF j.kind = "player_sync" THEN "guilds" ELSE "link", !.job = j]
<1>1. /\ t \in Task
      /\ t.at = IF j.kind = "player_sync" THEN "guilds" ELSE "link"
      /\ t.job = j /\ t.rows = task[w].rows /\ t.linked = task[w].linked
      /\ t.assigned = task[w].assigned /\ t.plan = task[w].plan
      /\ t.members = task[w].members /\ t.want = task[w].want
      /\ t.seen = task[w].seen
  <2>1. task[w] \in Task
    OBVIOUS
  <2>2. QED
    BY <2>1 DEF Task, At
<1>2. task' = [task EXCEPT ![w] = t] /\ queue' \subseteq queue
  BY DEF Start
<1> HIDE DEF t
<1>3. QED
  BY <1>1, <1>2 DEF Others

\* ... reads the rows of role_links ...
LEMMA RowsEffect ==
    ASSUME task \in [Workers -> Task], NEW w \in Workers, NEW at \in At,
           row \in [Links -> Row \cup {NoRow}],
           task' = [task EXCEPT ![w].rows = row, ![w].at = at]
    PROVE  /\ Others(w)
           /\ task'[w].at = at /\ task'[w].rows = row
           /\ task'[w].job = task[w].job /\ task'[w].linked = task[w].linked
           /\ task'[w].assigned = task[w].assigned
           /\ task'[w].plan = task[w].plan /\ task'[w].members = task[w].members
           /\ task'[w].want = task[w].want /\ task'[w].seen = task[w].seen
<1> DEFINE t == [task[w] EXCEPT !.at = at, !.rows = row]
<1>1. /\ t \in Task
      /\ t.at = at /\ t.rows = row /\ t.job = task[w].job
      /\ t.linked = task[w].linked /\ t.assigned = task[w].assigned
      /\ t.plan = task[w].plan /\ t.members = task[w].members
      /\ t.want = task[w].want /\ t.seen = task[w].seen
  <2>1. task[w] \in Task
    OBVIOUS
  <2>2. QED
    BY <2>1 DEF Task, At
<1>2. task' = [task EXCEPT ![w] = t]
  BY DEF Task
<1> HIDE DEF t
<1>3. QED
  BY <1>1, <1>2 DEF Others

\* ... whether the player is linked ...
LEMMA LinkedEffect ==
    ASSUME task \in [Workers -> Task], NEW w \in Workers,
           ReadLinked(w)
    PROVE  /\ Others(w) /\ queue' = queue
           /\ task'[w].at = "assigned"
           /\ task'[w].linked = Linked(task[w].job.player)
           /\ task'[w].job = task[w].job /\ task'[w].rows = task[w].rows
           /\ task'[w].assigned = task[w].assigned
           /\ task'[w].plan = task[w].plan /\ task'[w].members = task[w].members
           /\ task'[w].want = task[w].want /\ task'[w].seen = task[w].seen
<1> DEFINE t == [task[w] EXCEPT !.at = "assigned", !.linked = Linked(task[w].job.player)]
<1>1. /\ t \in Task
      /\ t.at = "assigned" /\ t.linked = Linked(task[w].job.player)
      /\ t.job = task[w].job /\ t.rows = task[w].rows
      /\ t.assigned = task[w].assigned /\ t.plan = task[w].plan
      /\ t.members = task[w].members /\ t.want = task[w].want
      /\ t.seen = task[w].seen
  <2>1. task[w] \in Task /\ Linked(task[w].job.player) \in BOOLEAN
    BY DEF Linked
  <2>2. QED
    BY <2>1 DEF Task, At
<1>2. task' = [task EXCEPT ![w] = t] /\ queue' = queue
  BY DEF ReadLinked, tables
<1> HIDE DEF t
<1>3. QED
  BY <1>1, <1>2 DEF Others

\* ... and has been assigned ...
LEMMA AssignedEffect ==
    ASSUME task \in [Workers -> Task], NEW w \in Workers,
           ReadAssigned(w)
    PROVE  /\ Others(w) /\ queue' = queue
           /\ task'[w].at = "facts"
           /\ task'[w].assigned = {l \in Links : task[w].job.player \in mirror[l]}
           /\ task'[w].job = task[w].job /\ task'[w].rows = task[w].rows
           /\ task'[w].linked = task[w].linked /\ task'[w].plan = task[w].plan
           /\ task'[w].members = task[w].members /\ task'[w].want = task[w].want
           /\ task'[w].seen = task[w].seen
<1> DEFINE t == [task[w] EXCEPT
                    !.at = "facts",
                    !.assigned = {l \in Links : task[w].job.player \in mirror[l]}]
<1>1. /\ t \in Task
      /\ t.at = "facts"
      /\ t.assigned = {l \in Links : task[w].job.player \in mirror[l]}
      /\ t.job = task[w].job /\ t.rows = task[w].rows
      /\ t.linked = task[w].linked /\ t.plan = task[w].plan
      /\ t.members = task[w].members /\ t.want = task[w].want
      /\ t.seen = task[w].seen
  <2>1. task[w] \in Task
    OBVIOUS
  <2>2. QED
    BY <2>1 DEF Task, At
<1>2. task' = [task EXCEPT ![w] = t] /\ queue' = queue
  BY DEF ReadAssigned, tables
<1> HIDE DEF t
<1>3. QED
  BY <1>1, <1>2 DEF Others

\* ... and decides.
LEMMA PlanEffect ==
    ASSUME task \in [Workers -> Task], NEW w \in Workers,
           Decide(w)
    PROVE  /\ Others(w) /\ queue' = queue
           /\ task'[w].at = "act"
           /\ task'[w].plan = [l \in Links |-> Decision(w, l)]
           /\ task'[w].job = task[w].job /\ task'[w].rows = task[w].rows
           /\ task'[w].linked = task[w].linked
           /\ task'[w].assigned = task[w].assigned
           /\ task'[w].members = task[w].members /\ task'[w].want = task[w].want
           /\ task'[w].seen = task[w].seen
<1> DEFINE t == [task[w] EXCEPT !.at = "act", !.plan = [l \in Links |-> Decision(w, l)]]
<1>1. /\ t \in Task
      /\ t.at = "act" /\ t.plan = [l \in Links |-> Decision(w, l)]
      /\ t.job = task[w].job /\ t.rows = task[w].rows
      /\ t.linked = task[w].linked /\ t.assigned = task[w].assigned
      /\ t.members = task[w].members /\ t.want = task[w].want
      /\ t.seen = task[w].seen
  <2>1. task[w] \in Task /\ [l \in Links |-> Decision(w, l)] \in [Links -> Plan]
    BY DEF Decision, Plan
  <2>2. QED
    BY <2>1 DEF Task, At
<1>2. task' = [task EXCEPT ![w] = t] /\ queue' = queue
  BY DEF Decide, tables
<1> HIDE DEF t
<1>3. QED
  BY <1>1, <1>2 DEF Others

\* The sync of a link reads the members ...
LEMMA MembersEffect ==
    ASSUME task \in [Workers -> Task], NEW w \in Workers,
           member \subseteq Players, FetchMembers(w)
    PROVE  /\ Others(w) /\ queue' = queue
           /\ task'[w].at = IF member = {} THEN "drain" ELSE "info"
           /\ task'[w].members = member /\ task'[w].job = task[w].job
           /\ task'[w].rows = task[w].rows /\ task'[w].linked = task[w].linked
           /\ task'[w].assigned = task[w].assigned
           /\ task'[w].plan = task[w].plan /\ task'[w].want = task[w].want
           /\ task'[w].seen = task[w].seen
<1> DEFINE t == [task[w] EXCEPT !.at = IF member = {} THEN "drain" ELSE "info", !.members = member]
<1>1. /\ t \in Task
      /\ t.at = IF member = {} THEN "drain" ELSE "info"
      /\ t.members = member /\ t.job = task[w].job /\ t.rows = task[w].rows
      /\ t.linked = task[w].linked /\ t.assigned = task[w].assigned
      /\ t.plan = task[w].plan /\ t.want = task[w].want
      /\ t.seen = task[w].seen
  <2>1. task[w] \in Task
    OBVIOUS
  <2>2. QED
    BY <2>1 DEF Task, At
<1>2. task' = [task EXCEPT ![w] = t] /\ queue' = queue
  BY DEF FetchMembers, tables
<1> HIDE DEF t
<1>3. QED
  BY <1>1, <1>2 DEF Others

\* ... selects among them ...
LEMMA WantEffect ==
    ASSUME task \in [Workers -> Task], NEW w \in Workers,
           SelectQualifying(w)
    PROVE  /\ Others(w) /\ queue' = queue
           /\ task'[w].at = "compare"
           /\ task'[w].want = FirstOf(Chosen(task[w]), UserLimit)
           /\ task'[w].job = task[w].job /\ task'[w].rows = task[w].rows
           /\ task'[w].linked = task[w].linked
           /\ task'[w].assigned = task[w].assigned
           /\ task'[w].plan = task[w].plan /\ task'[w].members = task[w].members
           /\ task'[w].seen = task[w].seen
<1> DEFINE t == [task[w] EXCEPT !.at = "compare", !.want = FirstOf(Chosen(task[w]), UserLimit)]
<1>1. /\ t \in Task
      /\ t.at = "compare" /\ t.want = FirstOf(Chosen(task[w]), UserLimit)
      /\ t.job = task[w].job /\ t.rows = task[w].rows
      /\ t.linked = task[w].linked /\ t.assigned = task[w].assigned
      /\ t.plan = task[w].plan /\ t.members = task[w].members
      /\ t.seen = task[w].seen
  <2>1. task[w] \in Task /\ FirstOf(Chosen(task[w]), UserLimit) \subseteq Players
    BY DEF FirstOf, Chosen, Task
  <2>2. QED
    BY <2>1 DEF Task, At
<1>2. task' = [task EXCEPT ![w] = t] /\ queue' = queue
  BY DEF SelectQualifying, Chosen, tables
<1> HIDE DEF t
<1>3. QED
  BY <1>1, <1>2 DEF Others

\* ... and deletes what has been assigned.
LEMMA SeenEffect ==
    ASSUME task \in [Workers -> Task], NEW w \in Workers,
           mirror \in [Links -> SUBSET Players], task[w].job.link \in Links,
           DeleteRows(w)
    PROVE  /\ Others(w) /\ queue' = queue
           /\ task'[w].at = "insert" /\ task'[w].seen = mirror[task[w].job.link]
           /\ task'[w].job = task[w].job /\ task'[w].rows = task[w].rows
           /\ task'[w].linked = task[w].linked
           /\ task'[w].assigned = task[w].assigned
           /\ task'[w].plan = task[w].plan /\ task'[w].members = task[w].members
           /\ task'[w].want = task[w].want
<1> DEFINE t == [task[w] EXCEPT !.at = "insert", !.seen = mirror[task[w].job.link]]
<1>1. /\ t \in Task
      /\ t.at = "insert" /\ t.seen = mirror[task[w].job.link]
      /\ t.job = task[w].job /\ t.rows = task[w].rows
      /\ t.linked = task[w].linked /\ t.assigned = task[w].assigned
      /\ t.plan = task[w].plan /\ t.members = task[w].members
      /\ t.want = task[w].want
  <2>1. task[w] \in Task /\ mirror[task[w].job.link] \subseteq Players
    OBVIOUS
  <2>2. QED
    BY <2>1 DEF Task, At
<1>2. task' = [task EXCEPT ![w] = t] /\ queue' = queue
  BY DEF DeleteRows, tables
<1> HIDE DEF t
<1>3. QED
  BY <1>1, <1>2 DEF Others

\* The INSERT of one sync changes what the DELETE of another will have removed.
LEMMA InsertEffect ==
    ASSUME task \in [Workers -> Task], NEW w \in Workers, InsertRows(w)
    PROVE  /\ task' \in [Workers -> Task] /\ task'[w] = Free
           /\ queue' \in {queue, queue \cup {task[w].job}}
           /\ \A v \in Workers \ {w} :
                 /\ task'[v].at = task[v].at /\ task'[v].job = task[v].job
                 /\ task'[v].rows = task[v].rows /\ task'[v].linked = task[v].linked
                 /\ task'[v].assigned = task[v].assigned
                 /\ task'[v].plan = task[v].plan /\ task'[v].members = task[v].members
                 /\ task'[v].want = task[v].want
                 /\ task[v].at = "free" => task'[v] = task[v]
                 /\ task[v].job.link # task[w].job.link => task'[v] = task[v]
<1> DEFINE l       == task[w].job.link
           Trim(u) == IF u.at = "insert" /\ u.job.link = l
                         THEN [u EXCEPT !.seen = @ \ task[w].seen] ELSE u
<1>1. CASE Retry(w)
  BY <1>1, EndEffect DEF Others, Retry
<1>2. CASE task' = [v \in Workers |-> IF v = w THEN Free ELSE Trim(task[v])] /\ UNCHANGED queue
  <2>1. ASSUME NEW v \in Workers
        PROVE  LET u == Trim(task[v])
               IN  /\ u \in Task /\ u.at = task[v].at /\ u.job = task[v].job
                   /\ u.rows = task[v].rows /\ u.linked = task[v].linked
                   /\ u.assigned = task[v].assigned /\ u.plan = task[v].plan
                   /\ u.members = task[v].members /\ u.want = task[v].want
                   /\ task[v].at = "free" => u = task[v]
                   /\ task[v].job.link # l => u = task[v]
    <3>1. task[v] \in Task
      OBVIOUS
    <3>2. QED
      BY <3>1 DEF Task
  <2> HIDE DEF Trim
  <2>2. QED
    BY <1>2, <2>1, FreeType
<1>3. QED
  BY <1>1, <1>2 DEF InsertRows

-----------------------------------------------------------------------------
(* Type correctness                                                        *)

PlayerAt == {"guilds", "rows", "linked", "assigned", "facts", "act"}
ConfigAt == {"link", "members", "info", "select", "compare", "put", "delete", "insert",
             "drain", "drain_put", "drain_delete", "orphan"}

\* A sync stands where its job takes it, and has no plan before it has decided.
Serves(t) ==
    /\ t.at = "free" => t = Free
    /\ t.at \in PlayerAt => \E p \in Players : t.job = PlayerSync(p)
    /\ t.at \in ConfigAt => \E l \in Links : t.job = ConfigSync(l)
    /\ t.at # "act" => t.plan = [l \in Links |-> "none"]

TasksOK == task \in [Workers -> Task] /\ \A w \in Workers : Serves(task[w])

TablesOK ==
    /\ fact \in [Players -> Facts \cup {Unlinked}]
    /\ row \in [Links -> Row \cup {NoRow}]
    /\ mirror \in [Links -> SUBSET Players]
    /\ queue \subseteq Job
    /\ alive \in [Links -> BOOLEAN]
    /\ born \in [Links -> 1..MaxGen]
    /\ users \in [Links -> SUBSET Players]
    /\ off \in [Links -> BOOLEAN]
    /\ gate \in [Links -> BOOLEAN]
    /\ member \subseteq Players
    /\ torn \subseteq Links
    /\ changes \in 0..MaxChanges
    /\ errors \in 0..MaxErrors
    /\ lost \in 0..MaxLost

SyncInv == TablesOK /\ TasksOK

LEMMA SyncInvTypes == SyncInv => TypeOK
BY DEF SyncInv, TablesOK, TasksOK, TypeOK, Serves

LEMMA FreeServes == Serves(Free)
BY DEF Serves, Free, PlayerAt, ConfigAt

\* Each job is of one of the two kinds.
LEMMA JobOf ==
    ASSUME NEW t \in Task, Serves(t)
    PROVE  /\ t.at \in PlayerAt => t.job \in Job /\ t.job.player \in Players
           /\ t.at \in ConfigAt => t.job \in Job /\ t.job.link \in Links
           /\ t.at # "free" => t.at \in PlayerAt \cup ConfigAt
BY DEF Serves, Job, PlayerSync, ConfigSync, PlayerAt, ConfigAt, Task, At

\* A step of one worker.
LEMMA OneTask ==
    ASSUME TasksOK, NEW w \in Workers, Others(w), Serves(task'[w])
    PROVE  TasksOK'
BY DEF TasksOK, Others

LEMMA EndTask ==
    ASSUME TasksOK, NEW w \in Workers, Done(w) \/ Retry(w)
    PROVE  TasksOK'
BY EndEffect, FreeServes, OneTask DEF TasksOK

\* From one point of a sync to another.
LEMMA GotoTask ==
    ASSUME TasksOK, NEW w \in Workers, NEW at \in At, Goto(w, at),
           \/ task[w].at \in PlayerAt \ {"act"} /\ at \in PlayerAt
           \/ task[w].at \in ConfigAt /\ at \in ConfigAt
    PROVE  TasksOK'
<1>1. Others(w) /\ task'[w].at = at /\ task'[w].job = task[w].job
      /\ task'[w].plan = task[w].plan
  BY GotoEffect DEF TasksOK
<1>2. Serves(task'[w])
  BY <1>1 DEF Serves, TasksOK, PlayerAt, ConfigAt
<1>3. QED
  BY <1>1, <1>2, OneTask

LEMMA ThenTask ==
    ASSUME TasksOK, NEW w \in Workers, NEW l \in Links, NEW next \in Plan, Then(w, l, next),
           task[w].at = "act"
    PROVE  TasksOK'
<1>1. Others(w) /\ task'[w].at = "act" /\ task'[w].job = task[w].job
  BY ThenEffect DEF TasksOK
<1>2. Serves(task'[w])
  BY <1>1 DEF Serves, TasksOK, PlayerAt, ConfigAt
<1>3. QED
  BY <1>1, <1>2, OneTask

LEMMA PlayerTask ==
    ASSUME SyncInv, NEW w \in Workers, PlayerStep(w)
    PROVE  TasksOK'
<1> USE DEF SyncInv
<1>1. CASE FetchGuilds(w)
  BY <1>1, EndTask, GotoTask DEF FetchGuilds, At, PlayerAt
<1>2. CASE ReadRows(w)
  <2>1. CASE Done(w)
    BY <2>1, EndTask
  <2>2. CASE task' = [task EXCEPT ![w].rows = row, ![w].at = "linked"]
    <3>1. Others(w) /\ task'[w].at = "linked" /\ task'[w].job = task[w].job
          /\ task'[w].plan = task[w].plan /\ task[w].at = "rows"
      BY <1>2, <2>2, RowsEffect DEF TasksOK, TablesOK, At, ReadRows
    <3>2. Serves(task'[w])
      BY <3>1 DEF Serves, TasksOK, PlayerAt, ConfigAt
    <3>3. QED
      BY <3>1, <3>2, OneTask
  <2>3. QED
    BY <1>2, <2>1, <2>2 DEF ReadRows
<1>3. CASE ReadLinked(w) \/ ReadAssigned(w)
  <2>1. Others(w) /\ task'[w].at \in {"assigned", "facts"} /\ task'[w].job = task[w].job
        /\ task'[w].plan = task[w].plan /\ task[w].at \in {"linked", "assigned"}
    BY <1>3, LinkedEffect, AssignedEffect DEF TasksOK, ReadLinked, ReadAssigned
  <2>2. Serves(task'[w])
    BY <2>1 DEF Serves, TasksOK, PlayerAt, ConfigAt
  <2>3. QED
    BY <2>1, <2>2, OneTask
<1>4. CASE Decide(w)
  <2>1. Others(w) /\ task'[w].at = "act" /\ task'[w].job = task[w].job /\ task[w].at = "facts"
    BY <1>4, PlanEffect DEF TasksOK, Decide
  <2>2. Serves(task'[w])
    BY <2>1 DEF Serves, TasksOK, PlayerAt, ConfigAt
  <2>3. QED
    BY <2>1, <2>2, OneTask
<1>5. ASSUME NEW l \in Links,
             \/ AddUser(w, l) \/ InsertAssignment(w, l) \/ RemoveUser(w, l)
             \/ DeleteAssignment(w, l) \/ DeleteOrphanOf(w, l)
      PROVE  TasksOK'
  <2>1. task[w].at = "act" /\ \E next \in {"none", "insert", "delete", "orphan"} : Then(w, l, next)
    BY <1>5 DEF AddUser, InsertAssignment, RemoveUser, DeleteAssignment, DeleteOrphanOf
  <2>2. QED
    BY <2>1, ThenTask DEF Plan
<1>6. CASE EndPlayerSync(w)
  BY <1>6, EndTask DEF EndPlayerSync
<1>7. QED
  BY <1>1, <1>2, <1>3, <1>4, <1>5, <1>6 DEF PlayerStep
LEMMA ConfigTask ==
    ASSUME SyncInv, NEW w \in Workers, ConfigStep(w)
    PROVE  TasksOK'
<1> USE DEF SyncInv
<1>1. CASE ReadLink(w)
  <2>1. CASE Done(w)
    BY <2>1, EndTask
  <2>2. ASSUME NEW at \in {"drain", "members"},
               task' = [task EXCEPT ![w].rows = row, ![w].at = at]
        PROVE  TasksOK'
    <3>1. Others(w) /\ task'[w].at = at /\ task'[w].job = task[w].job
          /\ task'[w].plan = task[w].plan /\ task[w].at = "link"
      BY <1>1, <2>2, RowsEffect DEF TasksOK, TablesOK, At, ReadLink
    <3>2. Serves(task'[w])
      BY <3>1 DEF Serves, TasksOK, PlayerAt, ConfigAt
    <3>3. QED
      BY <3>1, <3>2, OneTask
  <2>3. QED
    BY <1>1, <2>1, <2>2 DEF ReadLink
<1>2. CASE FetchMembers(w)
  <2>1. Others(w) /\ task'[w].at \in {"drain", "info"} /\ task'[w].job = task[w].job
        /\ task'[w].plan = task[w].plan /\ task[w].at = "members"
    BY <1>2, MembersEffect DEF TasksOK, TablesOK, FetchMembers
  <2>2. Serves(task'[w])
    BY <2>1 DEF Serves, TasksOK, PlayerAt, ConfigAt
  <2>3. QED
    BY <2>1, <2>2, OneTask
<1>3. CASE GetUserInfo(w)
  BY <1>3, EndTask, GotoTask DEF GetUserInfo, At, ConfigAt
<1>4. CASE SelectQualifying(w)
  <2>1. Others(w) /\ task'[w].at = "compare" /\ task'[w].job = task[w].job
        /\ task'[w].plan = task[w].plan /\ task[w].at = "select"
    BY <1>4, WantEffect DEF TasksOK, SelectQualifying
  <2>2. Serves(task'[w])
    BY <2>1 DEF Serves, TasksOK, PlayerAt, ConfigAt
  <2>3. QED
    BY <2>1, <2>2, OneTask
<1>5. CASE Compare(w) \/ CheckAny(w)
  BY <1>5, EndTask, GotoTask DEF Compare, CheckAny, At, ConfigAt
<1>6. ASSUME NEW S, NEW next \in {"delete", "drain_delete"}, Put(w, S, next),
             task[w].at \in {"put", "drain_put"}
      PROVE  TasksOK'
  <2>1. Done(w) \/ Retry(w) \/ Goto(w, next) \/ Goto(w, "orphan")
    BY <1>6 DEF Put
  <2>2. QED
    BY <1>6, <2>1, EndTask, GotoTask DEF At, ConfigAt
<1>7. CASE PutUsers(w) \/ PutNobody(w)
  BY <1>6, <1>7 DEF PutUsers, PutNobody
<1>8. CASE DeleteRows(w)
  <2>1. task[w].at = "delete" /\ task[w].job.link \in Links
    BY <1>8, JobOf DEF DeleteRows, TasksOK, ConfigAt
  <2>2. Others(w) /\ task'[w].at = "insert" /\ task'[w].job = task[w].job
        /\ task'[w].plan = task[w].plan
    BY <1>8, <2>1, SeenEffect DEF TasksOK, TablesOK
  <2>3. Serves(task'[w])
    BY <2>1, <2>2 DEF Serves, TasksOK, PlayerAt, ConfigAt
  <2>4. QED
    BY <2>2, <2>3, OneTask
<1>9. CASE InsertRows(w)
  <2>1. ASSUME NEW v \in Workers \ {w} PROVE Serves(task'[v])
    <3>1. /\ task'[v].at = task[v].at /\ task'[v].job = task[v].job
          /\ task'[v].plan = task[v].plan /\ (task[v].at = "free" => task'[v] = task[v])
      BY <1>9, InsertEffect DEF TasksOK
    <3>2. QED
      BY <3>1 DEF Serves, TasksOK
  <2>2. task' \in [Workers -> Task] /\ task'[w] = Free
    BY <1>9, InsertEffect DEF TasksOK
  <2>3. QED
    BY <2>1, <2>2, FreeServes DEF TasksOK
<1>10. CASE ClearMirror(w) \/ DeleteOrphan(w)
  BY <1>10, EndTask DEF ClearMirror, DeleteOrphan
<1>11. QED
  BY <1>1, <1>2, <1>3, <1>4, <1>5, <1>7, <1>8, <1>9, <1>10 DEF ConfigStep

LEMMA StartTask ==
    ASSUME SyncInv, NEW w \in Workers, NEW j \in Job, Start(w, j)
    PROVE  TasksOK'
<1>1. Others(w) /\ task'[w].job = j /\ task'[w].plan = task[w].plan
      /\ task'[w].at = IF j.kind = "player_sync" THEN "guilds" ELSE "link"
  BY StartEffect DEF SyncInv, TasksOK
<1>2. task[w].plan = [l \in Links |-> "none"]
  BY DEF Start, SyncInv, TasksOK, Serves
<1>3. Serves(task'[w])
  <2>1. CASE \E p \in Players : j = PlayerSync(p)
    BY <1>1, <1>2, <2>1 DEF PlayerSync, Serves, PlayerAt, ConfigAt
  <2>2. CASE \E l \in Links : j = ConfigSync(l)
    BY <1>1, <1>2, <2>2 DEF ConfigSync, Serves, PlayerAt, ConfigAt
  <2>3. QED
    BY <2>1, <2>2 DEF Job
<1>4. QED
  BY <1>1, <1>3, OneTask DEF SyncInv

LEMMA TasksStep ==
    ASSUME SyncInv, [Next]_vars
    PROVE  TasksOK'
<1>1. ASSUME UNCHANGED task PROVE TasksOK'
  BY <1>1 DEF SyncInv, TasksOK
<1>2. CASE Surroundings
  BY <1>1, <1>2
  DEF Surroundings, ChangeFact, Sever, ChangeMember, SaveRule, SwitchLink, CloseGate, Confirm,
      UpstreamDelete, UpstreamCreate, Register, Reconcile
<1>3. ASSUME NEW w \in Workers, ReadFails(w) \/ Crash(w) PROVE TasksOK'
  BY <1>3, EndTask DEF ReadFails, Crash, SyncInv
<1>4. QED
  BY <1>1, <1>2, <1>3, PlayerTask, ConfigTask, StartTask DEF Next, vars

\* What a step counts, and which jobs it adds.
LEMMA BoundsType ==
    ASSUME TablesOK, \/ UNCHANGED bounds \/ Change \/ Error
                     \/ \E S \in SUBSET Links : Torn(S)
    PROVE  /\ torn' \subseteq Links /\ changes' \in 0..MaxChanges
           /\ errors' \in 0..MaxErrors /\ lost' \in 0..MaxLost
BY BoundsAssumption DEF TablesOK, bounds, Change, Error, Torn

LEMMA QueueType ==
    ASSUME SyncInv, NEW w \in Workers, task[w].at # "free", Done(w) \/ Retry(w) \/ UNCHANGED queue
    PROVE  queue' \subseteq Job
<1>1. task[w].job \in Job
  BY JobOf DEF SyncInv, TasksOK
<1>2. QED
  BY <1>1 DEF Done, Retry, SyncInv, TablesOK

\* The tables of Postgres that a step of a sync does not write.
LEMMA PlayerTables ==
    ASSUME SyncInv, NEW w \in Workers, PlayerStep(w)
    PROVE  TablesOK'
<1> USE DEF SyncInv, tables, roleLogic
<1>1. CASE FetchGuilds(w) \/ ReadRows(w) \/ ReadLinked(w) \/ ReadAssigned(w) \/ Decide(w)
           \/ EndPlayerSync(w)
  <2>1. queue' = queue
    BY <1>1 DEF FetchGuilds, ReadRows, ReadLinked, ReadAssigned, Decide, EndPlayerSync, Done, Goto
  <2>2. QED
    BY <1>1, <2>1
    DEF FetchGuilds, ReadRows, ReadLinked, ReadAssigned, Decide, EndPlayerSync, TablesOK, bounds
<1>2. ASSUME NEW l \in Links,
             \/ AddUser(w, l) \/ InsertAssignment(w, l) \/ RemoveUser(w, l)
             \/ DeleteAssignment(w, l) \/ DeleteOrphanOf(w, l)
      PROVE  TablesOK'
  <2>1. task[w].job.player \in Players
    BY <1>2, JobOf
    DEF TasksOK, PlayerAt, AddUser, InsertAssignment, RemoveUser, DeleteAssignment, DeleteOrphanOf
  <2>2. \/ UNCHANGED bounds \/ Change \/ Error \/ \E S \in SUBSET Links : Torn(S)
    BY <1>2 DEF AddUser, InsertAssignment, RemoveUser, DeleteAssignment, DeleteOrphanOf, RemoveOrphan
  <2>3. /\ users' \in [Links -> SUBSET Players]
        /\ UNCHANGED <<fact, queue, alive, born, off, gate, member>>
    BY <1>2, <2>1
    DEF AddUser, InsertAssignment, RemoveUser, DeleteAssignment, DeleteOrphanOf, TablesOK
  <2>4. row' \in [Links -> Row \cup {NoRow}] /\ mirror' \in [Links -> SUBSET Players]
    BY <1>2, <2>1
    DEF AddUser, InsertAssignment, RemoveUser, DeleteAssignment, DeleteOrphanOf, RemoveOrphan,
        DeleteRow, TablesOK
  <2>5. QED
    BY <2>2, <2>3, <2>4, BoundsType DEF TablesOK
<1>3. QED
  BY <1>1, <1>2 DEF PlayerStep

LEMMA ConfigTables ==
    ASSUME SyncInv, NEW w \in Workers, ConfigStep(w)
    PROVE  TablesOK'
<1> USE DEF SyncInv, tables, roleLogic
<1>1. task[w].at \in ConfigAt
  BY DEF ConfigStep, ReadLink, FetchMembers, GetUserInfo, SelectQualifying, Compare, PutUsers,
         DeleteRows, InsertRows, CheckAny, PutNobody, ClearMirror, DeleteOrphan, ConfigAt
<1>2. task[w].job.link \in Links /\ task[w].at # "free"
  BY <1>1, JobOf DEF TasksOK, ConfigAt
<1>3. task[w].want \subseteq Players
  BY TaskFields DEF TasksOK
<1>4. CASE \/ ReadLink(w) \/ FetchMembers(w) \/ GetUserInfo(w) \/ SelectQualifying(w)
           \/ Compare(w) \/ DeleteRows(w) \/ CheckAny(w)
  <2>1. queue' \subseteq Job
    <3>1. Done(w) \/ Retry(w) \/ UNCHANGED queue
      BY <1>4 DEF ReadLink, FetchMembers, GetUserInfo, SelectQualifying, Compare, DeleteRows,
                  CheckAny, Goto
    <3>2. QED
      BY <1>2, <3>1, QueueType
  <2>2. UNCHANGED bounds \/ Error
    BY <1>4 DEF ReadLink, FetchMembers, GetUserInfo, SelectQualifying, Compare, DeleteRows, CheckAny
  <2>3. UNCHANGED <<fact, row, mirror, roleLogic, member>>
    BY <1>4 DEF ReadLink, FetchMembers, GetUserInfo, SelectQualifying, Compare, DeleteRows, CheckAny
  <2>4. QED
    BY <2>1, <2>2, <2>3, BoundsType DEF TablesOK
<1>5. ASSUME NEW S \in SUBSET Players, NEW next, Put(w, S, next) PROVE TablesOK'
  <2>1. queue' \subseteq Job
    <3>1. Done(w) \/ Retry(w) \/ UNCHANGED queue
      BY <1>5 DEF Put, Goto
    <3>2. QED
      BY <1>2, <3>1, QueueType
  <2>2. \/ UNCHANGED bounds \/ Error \/ \E T \in SUBSET Links : Torn(T)
    BY <1>2, <1>5 DEF Put
  <2>3. /\ users' \in [Links -> SUBSET Players]
        /\ UNCHANGED <<fact, row, mirror, alive, born, off, gate, member>>
    BY <1>2, <1>5 DEF Put, TablesOK
  <2>4. QED
    BY <2>1, <2>2, <2>3, BoundsType DEF TablesOK
<1>6. CASE PutUsers(w) \/ PutNobody(w)
  BY <1>3, <1>5, <1>6 DEF PutUsers, PutNobody
<1>7. CASE InsertRows(w)
  <2>1. queue' \subseteq Job
    BY <1>2, <1>7, QueueType DEF InsertRows
  <2>2. mirror' \in [Links -> SUBSET Players]
    BY <1>2, <1>3, <1>7 DEF InsertRows, TablesOK
  <2>3. UNCHANGED <<fact, row, roleLogic, member, bounds>>
    BY <1>7 DEF InsertRows
  <2>4. QED
    BY <2>1, <2>2, <2>3, BoundsType DEF TablesOK
<1>8. CASE ClearMirror(w) \/ DeleteOrphan(w)
  <2>1. queue' = queue
    BY <1>8 DEF ClearMirror, DeleteOrphan, Done
  <2>2. \/ UNCHANGED bounds \/ Error
    BY <1>8 DEF ClearMirror, DeleteOrphan, RemoveOrphan
  <2>3. /\ row' \in [Links -> Row \cup {NoRow}] /\ mirror' \in [Links -> SUBSET Players]
        /\ UNCHANGED <<fact, roleLogic, member>>
    BY <1>2, <1>8 DEF ClearMirror, DeleteOrphan, RemoveOrphan, DeleteRow, TablesOK
  <2>4. QED
    BY <2>1, <2>2, <2>3, BoundsType DEF TablesOK
<1>9. QED
  BY <1>4, <1>6, <1>7, <1>8 DEF ConfigStep

LEMMA SurroundingTables ==
    ASSUME SyncInv, Surroundings
    PROVE  TablesOK'
<1> USE DEF SyncInv, tables, roleLogic
<1>1. ASSUME NEW j \in Job, WithJob(j)
      PROVE  /\ queue' \subseteq Job /\ torn' \subseteq Links /\ changes' \in 0..MaxChanges
             /\ errors' \in 0..MaxErrors /\ lost' \in 0..MaxLost
  BY <1>1, BoundsAssumption DEF WithJob, Change, TablesOK
<1>2. /\ \A p \in Players : PlayerSync(p) \in Job
      /\ \A l \in Links : ConfigSync(l) \in Job
  BY DEF Job
<1>3. ASSUME NEW p \in Players, NEW f \in Facts \cup {Unlinked}, ChangeFact(p, f)
      PROVE  TablesOK'
  BY <1>1, <1>2, <1>3 DEF ChangeFact, TablesOK
<1>4. ASSUME NEW p \in Players, Sever(p) \/ ChangeMember(p) PROVE TablesOK'
  BY <1>4, BoundsType DEF Sever, ChangeMember, TablesOK
<1>5. ASSUME NEW l \in Links, NEW tree \in SUBSET Facts, SaveRule(l, tree) PROVE TablesOK'
  <2>1. [row[l] EXCEPT !.tree = tree] \in Row
    BY <1>5 DEF SaveRule, TablesOK, Row
  <2>2. row' = [row EXCEPT ![l] = [row[l] EXCEPT !.tree = tree]]
    BY <1>5 DEF SaveRule
  <2>3. row' \in [Links -> Row \cup {NoRow}]
    BY <2>1, <2>2 DEF TablesOK
  <2>4. QED
    BY <1>1, <1>2, <1>5, <2>3 DEF SaveRule, TablesOK
<1>6. ASSUME NEW l \in Links, SwitchLink(l) \/ CloseGate(l) \/ Confirm(l) PROVE TablesOK'
  BY <1>6, BoundsType DEF SwitchLink, CloseGate, Confirm, TablesOK
<1>7. ASSUME NEW l \in Links, UpstreamDelete(l) PROVE TablesOK'
  BY <1>7, BoundsType DEF UpstreamDelete, DeleteRow, TablesOK
<1>8. ASSUME NEW l \in Links, UpstreamCreate(l) PROVE TablesOK'
  BY <1>8, BoundsAssumption, BoundsType DEF UpstreamCreate, TablesOK
<1>9. ASSUME NEW l \in Links, Register(l) PROVE TablesOK'
  <2>1. [token |-> born[l], tree |-> IF row[l] = NoRow THEN {} ELSE row[l].tree] \in Row
    BY DEF TablesOK, Row
  <2>2. row' \in [Links -> Row \cup {NoRow}]
    BY <1>9, <2>1 DEF Register, TablesOK
  <2>3. QED
    BY <1>9, <2>2 DEF Register, TablesOK, bounds
<1>10. CASE Reconcile
  BY <1>2, <1>10 DEF Reconcile, TablesOK, bounds
<1>11. QED
  BY <1>3, <1>4, <1>5, <1>6, <1>7, <1>8, <1>9, <1>10 DEF Surroundings

LEMMA TablesStep ==
    ASSUME SyncInv, [Next]_vars
    PROVE  TablesOK'
<1> USE DEF tables, roleLogic
<1>1. ASSUME NEW w \in Workers, NEW j \in Job, Start(w, j) PROVE TablesOK'
  BY <1>1 DEF Start, SyncInv, TablesOK, bounds
<1>2. ASSUME NEW w \in Workers, ReadFails(w) \/ Crash(w) PROVE TablesOK'
  <2>1. queue' \subseteq Job
    BY <1>2, QueueType DEF ReadFails, Crash
  <2>2. Error \/ \E S \in SUBSET Links : Torn(S)
    BY <1>2 DEF ReadFails, Crash
  <2>3. QED
    BY <1>2, <2>1, <2>2, BoundsType DEF ReadFails, Crash, SyncInv, TablesOK
<1>3. CASE UNCHANGED vars
  BY <1>3 DEF vars, SyncInv, TablesOK, bounds
<1>4. QED
  BY <1>1, <1>2, <1>3, PlayerTables, ConfigTables, SurroundingTables DEF Next

LEMMA InitSyncInv == Init => SyncInv
<1> SUFFICES ASSUME Init PROVE SyncInv
  OBVIOUS
<1>1. TablesOK
  BY BoundsAssumption DEF Init, TablesOK, Row
<1>2. TasksOK
  BY FreeType, FreeServes DEF Init, TasksOK
<1>3. QED
  BY <1>1, <1>2 DEF SyncInv

\* Each worker stands where the job it has claimed takes it, and has read what
\* the code reads before that point.
THEOREM SyncInvariant == Spec => []SyncInv
<1>1. SyncInv /\ [Next]_vars => SyncInv'
  BY TasksStep, TablesStep DEF SyncInv
<1>2. QED
  BY <1>1, InitSyncInv, PTL DEF Spec

\* The tables and the locals of every sync keep to their types.
THEOREM SyncTypeCorrect == Spec => []TypeOK
BY SyncInvariant, SyncInvTypes, PTL
-----------------------------------------------------------------------------
(* While nothing outside changes, only justified changes                   *)

\* Every link is registered and in service.
Calm == \A l \in Links : alive[l] /\ born[l] = 1 /\ row[l] # NoRow /\ row[l].token = 1

\* What a sync has read is still so, and what it is about to send follows.
Informed(t) ==
    /\ t.at \in {"linked", "assigned", "facts", "act"} \cup (ConfigAt \ {"link"}) => t.rows = row
    /\ t.at \in PlayerAt \ {"guilds"} => t.job.player \in member
    /\ t.at \in {"assigned", "facts"} => t.linked = Linked(t.job.player)
    /\ t.at = "act" => \A l \in Links :
          /\ t.plan[l] = "add" => t.job.player \in Qualifying(l)
          /\ t.plan[l] = "remove" => t.job.player \notin Qualifying(l)
          /\ t.plan[l] # "orphan"
    /\ t.at # "orphan"
    /\ t.at \in {"info", "select", "compare", "put"} => t.members = member
    /\ \A l \in Links : t.job.link = l =>
          /\ t.at \in {"compare", "put"} => t.want = Desired(l)
          /\ t.at \in {"drain", "drain_put"} => Qualifying(l) = {}

QuietInv == changes = 0 => Calm /\ \A w \in Workers : Informed(task[w])

\* Without a change outside, what the syncs decide by stays as it is.
LEMMA QuietStays ==
    ASSUME SyncInv, QuietInv, [Next]_vars, changes' = 0
    PROVE  changes = 0 /\ UNCHANGED <<fact, row, alive, born, member>>
<1> USE DEF tables, roleLogic, bounds
<1>1. changes \in Nat
  BY BoundsAssumption DEF SyncInv, TablesOK
<1>2. ASSUME Change PROVE FALSE
  BY <1>1, <1>2 DEF Change
<1>3. ASSUME NEW w \in Workers, PlayerStep(w) PROVE changes = 0 /\ UNCHANGED <<fact, row, alive, born, member>>
  <2>1. changes' = changes
    BY <1>3 DEF PlayerStep, FetchGuilds, ReadRows, ReadLinked, ReadAssigned, Decide, AddUser,
                InsertAssignment, RemoveUser, DeleteAssignment, DeleteOrphanOf, EndPlayerSync,
                RemoveOrphan, Error, Torn
  <2>2. ~(\E l \in Links : DeleteOrphanOf(w, l))
    BY <2>1 DEF DeleteOrphanOf, QuietInv, Informed
  <2>3. QED
    BY <1>3, <2>1, <2>2
    DEF PlayerStep, FetchGuilds, ReadRows, ReadLinked, ReadAssigned, Decide, AddUser,
        InsertAssignment, RemoveUser, DeleteAssignment, EndPlayerSync
<1>4. ASSUME NEW w \in Workers, ConfigStep(w) PROVE changes = 0 /\ UNCHANGED <<fact, row, alive, born, member>>
  <2>1. changes' = changes
    BY <1>4 DEF ConfigStep, ReadLink, FetchMembers, GetUserInfo, SelectQualifying, Compare,
                PutUsers, DeleteRows, InsertRows, CheckAny, PutNobody, Put, ClearMirror,
                DeleteOrphan, RemoveOrphan, Error, Torn
  <2>2. ~DeleteOrphan(w)
    BY <2>1 DEF DeleteOrphan, QuietInv, Informed
  <2>3. QED
    BY <1>4, <2>1, <2>2
    DEF ConfigStep, ReadLink, FetchMembers, GetUserInfo, SelectQualifying, Compare, PutUsers,
        DeleteRows, InsertRows, CheckAny, PutNobody, Put, ClearMirror
<1>5. CASE Surroundings
  <2>1. CASE Reconcile \/ \E l \in Links : Confirm(l)
    BY <2>1 DEF Reconcile, Confirm
  <2>2. CASE \E l \in Links : UpstreamCreate(l) \/ Register(l)
    BY <2>2 DEF UpstreamCreate, Register, QuietInv, Calm
  <2>3. QED
    BY <1>1, <1>2, <1>5, <2>1, <2>2
    DEF Surroundings, ChangeFact, SaveRule, WithJob, Sever, ChangeMember, SwitchLink, CloseGate,
        UpstreamDelete
<1>6. ASSUME NEW w \in Workers, ReadFails(w) \/ Crash(w) \/ \E j \in Job : Start(w, j)
      PROVE changes = 0 /\ UNCHANGED <<fact, row, alive, born, member>>
  BY <1>6 DEF ReadFails, Crash, Start, Error, Torn
<1>7. QED
  BY <1>3, <1>4, <1>5, <1>6 DEF Next, vars

LEMMA DesiredStays ==
    ASSUME UNCHANGED <<fact, row, member>>
    PROVE  \A l \in Links : Qualifying(l)' = Qualifying(l) /\ Desired(l)' = Desired(l)
<1>1. ASSUME NEW l \in Links PROVE Qualifying(l)' = Qualifying(l)
  BY DEF Qualifying, Linked
<1>2. QED
  BY <1>1 DEF Desired, FirstOf

\* A sync of a player grants to those who qualify, and takes from the others.
LEMMA DecisionSound ==
    ASSUME SyncInv, NEW w \in Workers, Informed(task[w]), task[w].at = "facts", NEW l \in Links
    PROVE  /\ Decision(w, l) = "add" => task[w].job.player \in Qualifying(l)
           /\ Decision(w, l) = "remove" => task[w].job.player \notin Qualifying(l)
           /\ Decision(w, l) # "orphan"
<1> DEFINE p == task[w].job.player
<1>1. /\ task[w].rows = row /\ task[w].linked = Linked(p) /\ p \in member /\ p \in Players
      /\ fact[p] \in Facts \cup {Unlinked}
  BY JobOf DEF Informed, PlayerAt, ConfigAt, SyncInv, TasksOK, TablesOK
<1>2. row[l] # NoRow => row[l].tree \subseteq Facts
  BY DEF SyncInv, TablesOK, Row
<1> DEFINE q == IF row[l].tree = Facts THEN Linked(p) ELSE fact[p] \in row[l].tree
<1>3. row[l] # NoRow => (q <=> p \in Qualifying(l))
  BY <1>1, <1>2, UnlinkedAssumption DEF Qualifying, Linked
<1>4. Decision(w, l) = CASE row[l] = NoRow       -> "none"
                         [] row[l] # NoRow /\ q  -> IF l \in task[w].assigned THEN "none" ELSE "add"
                         [] row[l] # NoRow /\ ~q -> IF l \in task[w].assigned THEN "remove" ELSE "none"
  BY <1>1 DEF Decision
<1> HIDE DEF q, p
<1>5. /\ Decision(w, l) = "add" => row[l] # NoRow /\ q
      /\ Decision(w, l) = "remove" => row[l] # NoRow /\ ~q
      /\ Decision(w, l) # "orphan"
  BY <1>4
<1>6. QED
  BY <1>3, <1>5 DEF p
\* A step that leaves one sync as well informed as it was, and the others alone.
LEMMA StaysInformed ==
    ASSUME UNCHANGED <<fact, row, member>>, NEW v \in Workers, Informed(task[v]),
           \/ task'[v] = task[v]
           \/ /\ task'[v].at = task[v].at /\ task'[v].job = task[v].job
              /\ task'[v].rows = task[v].rows /\ task'[v].linked = task[v].linked
              /\ task'[v].plan = task[v].plan /\ task'[v].members = task[v].members
              /\ task'[v].want = task[v].want
    PROVE  Informed(task[v])'
<1>1. \A l \in Links : Qualifying(l)' = Qualifying(l) /\ Desired(l)' = Desired(l)
  BY DesiredStays
<1>2. QED
  BY <1>1 DEF Informed, Linked

\* A free worker knows nothing wrong.
LEMMA FreeInformed ==
    ASSUME NEW w \in Workers, task'[w] = Free
    PROVE  Informed(task[w])'
BY DEF Informed, Free, PlayerAt, ConfigAt

LEMMA PlayerInformed ==
    ASSUME SyncInv, NEW w \in Workers, PlayerStep(w), Informed(task[w]),
           UNCHANGED <<fact, row, member>>, Calm
    PROVE  Others(w) /\ Informed(task[w])'
<1> USE DEF SyncInv, TasksOK
<1>1. \A l \in Links : Qualifying(l)' = Qualifying(l) /\ Desired(l)' = Desired(l)
  BY DesiredStays
<1>2. CASE Done(w)
  BY <1>2, EndEffect, FreeInformed
<1>3. CASE FetchGuilds(w) /\ Goto(w, "rows")
  <2>1. Others(w) /\ task'[w].at = "rows" /\ task'[w].job = task[w].job
        /\ task[w].job.player \in member
    <3>1. Others(w) /\ task'[w].at = "rows" /\ task'[w].job = task[w].job
      BY <1>3, GotoEffect DEF At
    <3>2. ~Done(w)
      BY <3>1, EndEffect DEF Free
    <3>3. QED
      BY <1>3, <3>1, <3>2 DEF FetchGuilds
  <2>2. QED
    BY <2>1 DEF Informed, PlayerAt, ConfigAt
<1>4. CASE ReadRows(w) /\ task' = [task EXCEPT ![w].rows = row, ![w].at = "linked"]
  <2>1. Others(w) /\ task'[w].at = "linked" /\ task'[w].job = task[w].job
        /\ task'[w].rows = row /\ task[w].at = "rows"
    BY <1>4, RowsEffect DEF TablesOK, ReadRows, At
  <2>2. QED
    BY <2>1 DEF Informed, PlayerAt, ConfigAt
<1>5. CASE ReadLinked(w)
  <2>1. Others(w) /\ task'[w].at = "assigned" /\ task'[w].job = task[w].job
        /\ task'[w].rows = task[w].rows /\ task[w].at = "linked"
        /\ task'[w].linked = Linked(task[w].job.player)
    BY <1>5, LinkedEffect DEF ReadLinked
  <2>2. QED
    BY <2>1 DEF Informed, PlayerAt, ConfigAt, Linked
<1>6. CASE ReadAssigned(w)
  <2>1. Others(w) /\ task'[w].at = "facts" /\ task'[w].job = task[w].job
        /\ task'[w].rows = task[w].rows /\ task[w].at = "assigned"
        /\ task'[w].linked = task[w].linked
    BY <1>6, AssignedEffect DEF ReadAssigned
  <2>2. QED
    BY <2>1 DEF Informed, PlayerAt, ConfigAt, Linked
<1>7. CASE Decide(w)
  <2>1. Others(w) /\ task'[w].at = "act" /\ task'[w].job = task[w].job
        /\ task'[w].rows = task[w].rows /\ task[w].at = "facts"
        /\ task'[w].plan = [l \in Links |-> Decision(w, l)]
    BY <1>7, PlanEffect DEF Decide
  <2>2. \A l \in Links :
            /\ task'[w].plan[l] = "add" => task[w].job.player \in Qualifying(l)
            /\ task'[w].plan[l] = "remove" => task[w].job.player \notin Qualifying(l)
            /\ task'[w].plan[l] # "orphan"
    BY <2>1, DecisionSound
  <2>3. QED
    BY <1>1, <2>1, <2>2 DEF Informed, PlayerAt, ConfigAt
<1>8. ASSUME NEW l \in Links,
             \/ AddUser(w, l) \/ InsertAssignment(w, l) \/ RemoveUser(w, l)
             \/ DeleteAssignment(w, l) \/ DeleteOrphanOf(w, l)
      PROVE  Others(w) /\ Informed(task[w])'
  <2>1. task[w].at = "act" /\ task[w].rows = row /\ task[w].plan[l] # "orphan"
    BY <1>8 DEF AddUser, InsertAssignment, RemoveUser, DeleteAssignment, DeleteOrphanOf, Informed
  <2>2. ~Gone(w, l)
    BY <2>1 DEF Gone, Calm
  <2>3. \E next \in {"none", "insert", "delete"} : Then(w, l, next)
    BY <1>8, <2>1, <2>2
    DEF AddUser, InsertAssignment, RemoveUser, DeleteAssignment, DeleteOrphanOf
  <2>4. PICK next \in {"none", "insert", "delete"} : Then(w, l, next)
    BY <2>3
  <2>5. /\ Others(w) /\ task'[w].at = "act" /\ task'[w].job = task[w].job
        /\ task'[w].rows = task[w].rows
        /\ task'[w].plan = [task[w].plan EXCEPT ![l] = next]
    <3>1. next \in Plan
      BY <2>4 DEF Plan
    <3>2. QED
      BY <2>1, <2>4, <3>1, ThenEffect
  <2>6. \A k \in Links : task'[w].plan[k] \in {task[w].plan[k], "none", "insert", "delete"}
    BY <2>5, TaskFields
  <2>7. QED
    BY <1>1, <2>1, <2>5, <2>6 DEF Informed, PlayerAt, ConfigAt
<1>9. QED
  BY <1>2, <1>3, <1>4, <1>5, <1>6, <1>7, <1>8 DEF PlayerStep, FetchGuilds, ReadRows, EndPlayerSync

LEMMA ConfigInformed ==
    ASSUME SyncInv, NEW w \in Workers, ConfigStep(w), ~InsertRows(w), Informed(task[w]),
           UNCHANGED <<fact, row, member>>, Calm
    PROVE  Others(w) /\ Informed(task[w])'
<1> USE DEF SyncInv, TasksOK
<1>1. \A l \in Links : Qualifying(l)' = Qualifying(l) /\ Desired(l)' = Desired(l)
  BY DesiredStays
<1>2. CASE Done(w) \/ Retry(w)
  BY <1>2, EndEffect, FreeInformed
<1>3. PICK l \in Links : task[w].job.link = l
  <2>1. task[w].at \in ConfigAt
    BY DEF ConfigStep, ReadLink, FetchMembers, GetUserInfo, SelectQualifying, Compare, PutUsers,
           DeleteRows, InsertRows, CheckAny, PutNobody, ClearMirror, DeleteOrphan, ConfigAt
  <2>2. QED
    BY <2>1, JobOf
<1>4. CASE ReadLink(w) /\ ~Done(w)
  <2>1. PICK at \in {"drain", "members"} :
            /\ at = IF row[l].tree = {} THEN "drain" ELSE "members"
            /\ task' = [task EXCEPT ![w].rows = row, ![w].at = at]
    BY <1>3, <1>4 DEF ReadLink
  <2>2. Others(w) /\ task'[w].at = at /\ task'[w].job = task[w].job /\ task'[w].rows = row
    <3>1. at \in At /\ row \in [Links -> Row \cup {NoRow}]
      BY <2>1 DEF TablesOK, At
    <3>2. QED
      BY <2>1, <3>1, RowsEffect
  <2>3. row[l].tree = {} => Qualifying(l) = {}
    BY DEF Qualifying
  <2>4. QED
    BY <1>1, <1>3, <2>1, <2>2, <2>3 DEF Informed, PlayerAt, ConfigAt
<1>5. CASE FetchMembers(w)
  <2>1. /\ Others(w) /\ task'[w].job = task[w].job /\ task'[w].rows = task[w].rows
        /\ task'[w].members = member /\ task[w].at = "members"
        /\ task'[w].at = IF member = {} THEN "drain" ELSE "info"
    BY <1>5, MembersEffect DEF TablesOK, FetchMembers
  <2>2. member = {} => Qualifying(l) = {}
    BY DEF Qualifying
  <2>3. QED
    BY <1>1, <1>3, <2>1, <2>2 DEF Informed, PlayerAt, ConfigAt
<1>6. CASE SelectQualifying(w)
  <2>1. /\ Others(w) /\ task'[w].job = task[w].job /\ task'[w].rows = task[w].rows
        /\ task'[w].members = task[w].members /\ task'[w].at = "compare"
        /\ task'[w].want = FirstOf(Chosen(task[w]), UserLimit) /\ task[w].at = "select"
    BY <1>6, WantEffect DEF SelectQualifying
  <2>2. task[w].members = member /\ task[w].rows = row /\ row[l] # NoRow
    BY <2>1 DEF Informed, Calm, ConfigAt
  <2>3. Chosen(task[w]) = Qualifying(l)
    BY <1>3, <2>2 DEF Chosen, Qualifying
  <2>4. task'[w].want = Desired(l)
    BY <2>1, <2>3 DEF Desired
  <2>5. QED
    BY <1>1, <1>3, <2>1, <2>2, <2>4 DEF Informed, PlayerAt, ConfigAt
<1>7. ASSUME NEW at \in {"select", "put", "delete", "drain_put", "drain_delete"}, Goto(w, at),
             \/ task[w].at = "info" /\ at = "select"
             \/ task[w].at = "compare" /\ at = "put"
             \/ task[w].at = "put" /\ at = "delete"
             \/ task[w].at = "drain" /\ at = "drain_put"
             \/ task[w].at = "drain_put" /\ at = "drain_delete"
      PROVE  Others(w) /\ Informed(task[w])'
  <2>1. /\ Others(w) /\ task'[w].at = at /\ task'[w].job = task[w].job
        /\ task'[w].rows = task[w].rows /\ task'[w].members = task[w].members
        /\ task'[w].want = task[w].want
    BY <1>7, GotoEffect DEF At
  <2>2. QED
    BY <1>1, <1>7, <2>1 DEF Informed, PlayerAt, ConfigAt
<1>8. CASE DeleteRows(w)
  <2>1. /\ Others(w) /\ task'[w].at = "insert" /\ task'[w].job = task[w].job
        /\ task'[w].rows = task[w].rows /\ task[w].at = "delete"
    BY <1>3, <1>8, SeenEffect DEF TablesOK, DeleteRows
  <2>2. QED
    BY <1>1, <2>1 DEF Informed, PlayerAt, ConfigAt
<1>9. task[w].at # "orphan"
  BY DEF Informed
<1>10. task[w].at \in {"info", "put", "drain_put"} => ~Gone(w, l)
  BY DEF Informed, Gone, Calm, ConfigAt
<1>11. CASE GetUserInfo(w)
  BY <1>2, <1>3, <1>7, <1>10, <1>11 DEF GetUserInfo
<1>12. CASE PutUsers(w) \/ PutNobody(w)
  BY <1>2, <1>3, <1>7, <1>10, <1>12 DEF PutUsers, PutNobody, Put
<1>13. CASE Compare(w) \/ CheckAny(w)
  BY <1>2, <1>7, <1>13 DEF Compare, CheckAny
<1>14. CASE ClearMirror(w)
  BY <1>2, <1>14 DEF ClearMirror
<1>15. QED
  BY <1>2, <1>4, <1>5, <1>6, <1>8, <1>9, <1>11, <1>12, <1>13, <1>14
  DEF ConfigStep, DeleteOrphan

LEMMA QuietStep ==
    ASSUME SyncInv, QuietInv, [Next]_vars
    PROVE  QuietInv'
<1> SUFFICES ASSUME changes' = 0 PROVE Calm' /\ \A v \in Workers : Informed(task[v])'
  BY DEF QuietInv
<1>1. changes = 0 /\ UNCHANGED <<fact, row, alive, born, member>>
  BY QuietStays
<1>2. Calm /\ \A v \in Workers : Informed(task[v])
  BY <1>1 DEF QuietInv
<1>3. Calm'
  BY <1>1, <1>2 DEF Calm
<1>4. ASSUME NEW w \in Workers, Others(w), Informed(task[w])'
      PROVE  \A v \in Workers : Informed(task[v])'
  BY <1>1, <1>2, <1>4, StaysInformed DEF Others
<1>5. ASSUME NEW w \in Workers, PlayerStep(w) PROVE \A v \in Workers : Informed(task[v])'
  BY <1>1, <1>2, <1>4, <1>5, PlayerInformed
<1>6. ASSUME NEW w \in Workers, ConfigStep(w), ~InsertRows(w)
      PROVE  \A v \in Workers : Informed(task[v])'
  BY <1>1, <1>2, <1>4, <1>6, ConfigInformed
<1>7. ASSUME NEW w \in Workers, InsertRows(w) PROVE \A v \in Workers : Informed(task[v])'
  <2>1. ASSUME NEW v \in Workers \ {w} PROVE Informed(task[v])'
    <3>1. /\ task'[v].at = task[v].at /\ task'[v].job = task[v].job
          /\ task'[v].rows = task[v].rows /\ task'[v].linked = task[v].linked
          /\ task'[v].plan = task[v].plan /\ task'[v].members = task[v].members
          /\ task'[v].want = task[v].want
      BY <1>7, InsertEffect DEF SyncInv, TasksOK
    <3>2. QED
      BY <1>1, <1>2, <3>1, StaysInformed
  <2>2. Informed(task[w])'
    BY <1>7, InsertEffect, FreeInformed DEF SyncInv, TasksOK
  <2>3. QED
    BY <2>1, <2>2
<1>8. ASSUME NEW w \in Workers, ReadFails(w) \/ Crash(w)
      PROVE  \A v \in Workers : Informed(task[v])'
  <2>1. Others(w) /\ task'[w] = Free
    BY <1>8, EndEffect DEF ReadFails, Crash, SyncInv, TasksOK
  <2>2. QED
    BY <1>4, <2>1, FreeInformed
<1>9. ASSUME NEW w \in Workers, NEW j \in Job, Start(w, j)
      PROVE  \A v \in Workers : Informed(task[v])'
  <2>1. Others(w) /\ task'[w].at \in {"guilds", "link"}
    BY <1>9, StartEffect DEF SyncInv, TasksOK
  <2>2. Informed(task[w])'
    BY <2>1 DEF Informed, PlayerAt, ConfigAt
  <2>3. QED
    BY <1>4, <2>1, <2>2
<1>10. CASE UNCHANGED task
  BY <1>1, <1>2, <1>3, <1>10, StaysInformed
<1>11. CASE Surroundings
  BY <1>10, <1>11
  DEF Surroundings, ChangeFact, Sever, ChangeMember, SaveRule, SwitchLink, CloseGate, Confirm,
      UpstreamDelete, UpstreamCreate, Register, Reconcile
<1>12. QED
  BY <1>3, <1>5, <1>6, <1>7, <1>8, <1>9, <1>10, <1>11 DEF Next, vars

\* Who is to hold the role qualifies for it.
LEMMA DesiredQualify == \A l \in Links : Desired(l) \subseteq Qualifying(l)
BY DEF Desired, FirstOf

LEMMA JustifiedStep ==
    ASSUME SyncInv, QuietInv, [Next]_vars, changes' = 0, NEW l \in Links
    PROVE  /\ users'[l] \ users[l] \subseteq Qualifying(l)
           /\ (users[l] \ users'[l]) \cap Desired(l) = {}
<1>1. changes = 0 /\ changes \in Nat
  BY QuietStays, BoundsAssumption DEF SyncInv, TablesOK
<1>2. /\ users \in [Links -> SUBSET Players]
      /\ \A w \in Workers : Informed(task[w]) /\ task[w] \in Task /\ Serves(task[w])
  BY <1>1 DEF QuietInv, SyncInv, TablesOK, TasksOK
<1>3. CASE users' = users
  BY <1>3
<1>4. ASSUME NEW w \in Workers, NEW k \in Links, AddUser(w, k), users' # users
      PROVE  users'[l] \ users[l] \subseteq Qualifying(l) /\ users[l] \subseteq users'[l]
  <2>1. task[w].job.player \in Qualifying(k)
    BY <1>2, <1>4 DEF AddUser, Informed
  <2>2. users' = [users EXCEPT ![k] = @ \cup {task[w].job.player}]
    BY <1>4 DEF AddUser
  <2>3. QED
    BY <1>2, <2>1, <2>2
<1>5. ASSUME NEW w \in Workers, NEW k \in Links, RemoveUser(w, k), users' # users
      PROVE  users'[l] \subseteq users[l] /\ (users[l] \ users'[l]) \cap Desired(l) = {}
  <2>1. task[w].job.player \notin Desired(k)
    BY <1>2, <1>5, DesiredQualify DEF RemoveUser, Informed
  <2>2. users' = [users EXCEPT ![k] = @ \ {task[w].job.player}]
    BY <1>5 DEF RemoveUser
  <2>3. QED
    BY <1>2, <2>1, <2>2
<1>6. ASSUME NEW w \in Workers, PutUsers(w) \/ PutNobody(w), users' # users
      PROVE  /\ users'[l] \ users[l] \subseteq Qualifying(l)
             /\ (users[l] \ users'[l]) \cap Desired(l) = {}
  <2>1. PICK k \in Links : task[w].job.link = k
    BY <1>2, <1>6, JobOf DEF PutUsers, PutNobody, ConfigAt
  <2>2. PICK S : /\ users' = [users EXCEPT ![k] = S]
                 /\ S = IF task[w].at = "put" THEN task[w].want ELSE {}
    BY <1>6, <2>1 DEF PutUsers, PutNobody, Put
  <2>3. S = Desired(k)
    BY <1>2, <1>6, <2>1, <2>2, DesiredQualify DEF PutUsers, PutNobody, Informed
  <2>4. QED
    BY <1>2, <2>2, <2>3, DesiredQualify
<1>7. ASSUME NEW w \in Workers, PlayerStep(w)
      PROVE  users' = users \/ \E k \in Links : AddUser(w, k) \/ RemoveUser(w, k)
  BY <1>7 DEF PlayerStep, FetchGuilds, ReadRows, ReadLinked, ReadAssigned, Decide,
              InsertAssignment, DeleteAssignment, DeleteOrphanOf, EndPlayerSync, roleLogic
<1>8. ASSUME NEW w \in Workers, ConfigStep(w)
      PROVE  users' = users \/ PutUsers(w) \/ PutNobody(w)
  BY <1>8 DEF ConfigStep, ReadLink, FetchMembers, GetUserInfo, SelectQualifying, Compare,
              DeleteRows, InsertRows, CheckAny, ClearMirror, DeleteOrphan, roleLogic
<1>9. ASSUME NEW w \in Workers, ReadFails(w) \/ Crash(w) \/ \E j \in Job : Start(w, j)
      PROVE  users' = users
  BY <1>9 DEF ReadFails, Crash, Start, roleLogic
<1>10. CASE Surroundings
  <2>1. ~(\E k \in Links : UpstreamDelete(k))
    BY <1>1 DEF UpstreamDelete, Change
  <2>2. users' = users
    BY <1>10, <2>1
    DEF Surroundings, ChangeFact, Sever, ChangeMember, SaveRule, SwitchLink, CloseGate, Confirm,
        UpstreamCreate, Register, Reconcile, roleLogic
  <2>3. QED
    BY <2>2
<1>11. QED
  BY <1>3, <1>4, <1>5, <1>6, <1>7, <1>8, <1>9, <1>10 DEF Next, vars, roleLogic

\* While nothing outside changes, whatever fails, crashes or overlaps, a role
\* is granted only to those who qualify, and taken from nobody who should have
\* it, for any number of workers.
THEOREM ChangesAreJustified == Spec => OnlyJustifiedChanges
<1>1. Init => QuietInv
  <2> SUFFICES ASSUME Init PROVE Calm /\ \A w \in Workers : Informed(task[w])
    BY DEF QuietInv
  <2>1. \A l \in Links : row[l] \in [token : {1}, tree : SUBSET Facts]
    BY DEF Init
  <2>2. Calm
    <3>1. \A l \in Links : row[l] # NoRow /\ row[l].token = 1
      BY <2>1, NoRowAssumption, BoundsAssumption DEF Row
    <3>2. QED
      BY <3>1 DEF Init, Calm
  <2>3. QED
    BY <2>2 DEF Init, Informed, Free, PlayerAt, ConfigAt
<1>2. SyncInv /\ QuietInv /\ [Next]_vars => QuietInv'
  BY QuietStep
<1>3. SyncInv /\ QuietInv /\ [Next]_vars =>
          [\A l \in Links : changes' = 0 =>
              /\ users'[l] \ users[l] \subseteq Qualifying(l)
              /\ (users[l] \ users'[l]) \cap Desired(l) = {}]_vars
  BY JustifiedStep
<1>4. QED
  BY <1>1, <1>2, <1>3, SyncInvariant, PTL DEF Spec, OnlyJustifiedChanges
-----------------------------------------------------------------------------
(* The mirror, as long as no two syncs write the same                      *)

\* The link is still the one that was first registered.
Original(l) == born[l] = 1 /\ alive[l]

\* The tokens a sync has read are not from the future, and it has found out
\* that RoleLogic does not know its token only where the link is gone.
Reads(t) ==
    /\ \A l \in Links : t.rows[l] # NoRow => t.rows[l].token <= born[l]
    /\ \A l \in Links : t.plan[l] \in {"add", "remove"} => t.rows[l] # NoRow
    /\ \A l \in Links : t.plan[l] = "orphan" => ~Original(l)
    /\ \A l \in Links : t.at \in ConfigAt \ {"link"} /\ t.job.link = l => t.rows[l] # NoRow
    /\ \A l \in Links : t.at = "orphan" /\ t.job.link = l => ~Original(l)

RowsInv == \A l \in Links :
    /\ row[l] # NoRow => row[l].token <= born[l]
    /\ Original(l) => row[l] # NoRow

ReadsInv == RowsInv /\ \A w \in Workers : Reads(task[w])

\* A link only ever grows older, and what RoleLogic has deleted stays deleted.
LEMMA LinksAge ==
    ASSUME SyncInv, [Next]_vars
    PROVE  \A l \in Links : born[l] <= born'[l] /\ (Original(l)' => Original(l))
<1> USE DEF roleLogic
<1>1. \A l \in Links : born[l] \in Nat /\ born[l] >= 1
  BY BoundsAssumption DEF SyncInv, TablesOK
<1>2. CASE UNCHANGED <<alive, born>>
  BY <1>1, <1>2 DEF Original
<1>3. ASSUME NEW k \in Links, UpstreamDelete(k)
      PROVE  \A l \in Links : born[l] <= born'[l] /\ (Original(l)' => Original(l))
  BY <1>1, <1>3 DEF UpstreamDelete, Original, SyncInv, TablesOK
<1>4. ASSUME NEW k \in Links, UpstreamCreate(k)
      PROVE  \A l \in Links : born[l] <= born'[l] /\ (Original(l)' => Original(l))
  BY <1>1, <1>4 DEF UpstreamCreate, Original, SyncInv, TablesOK
<1>5. ASSUME NEW w \in Workers, PlayerStep(w) PROVE UNCHANGED <<alive, born>>
  BY <1>5 DEF PlayerStep, FetchGuilds, ReadRows, ReadLinked, ReadAssigned, Decide, AddUser,
              InsertAssignment, RemoveUser, DeleteAssignment, DeleteOrphanOf, EndPlayerSync
<1>6. ASSUME NEW w \in Workers, ConfigStep(w) PROVE UNCHANGED <<alive, born>>
  BY <1>6 DEF ConfigStep, ReadLink, FetchMembers, GetUserInfo, SelectQualifying, Compare,
              PutUsers, DeleteRows, InsertRows, CheckAny, PutNobody, Put, ClearMirror,
              DeleteOrphan
<1>7. ASSUME NEW w \in Workers, ReadFails(w) \/ Crash(w) \/ \E j \in Job : Start(w, j)
      PROVE  UNCHANGED <<alive, born>>
  BY <1>7 DEF ReadFails, Crash, Start
<1>8. CASE Surroundings
  BY <1>2, <1>3, <1>4, <1>8
  DEF Surroundings, ChangeFact, Sever, ChangeMember, SaveRule, SwitchLink, CloseGate, Confirm,
      Register, Reconcile
<1>9. QED
  BY <1>2, <1>5, <1>6, <1>7, <1>8 DEF Next, vars

\* The token that w has read of an original link is the one it was born with.
LEMMA GoneIsGone ==
    ASSUME SyncInv, ReadsInv, NEW w \in Workers, NEW l \in Links,
           task[w].rows[l] # NoRow, Gone(w, l)
    PROVE  ~Original(l)
<1>1. task[w].rows[l] \in Row
  BY TaskFields DEF SyncInv, TasksOK
<1>2. task[w].rows[l].token \in Nat /\ task[w].rows[l].token >= 1
      /\ task[w].rows[l].token <= born[l]
  BY <1>1, BoundsAssumption DEF Row, ReadsInv, Reads
<1>3. QED
  BY <1>2, BoundsAssumption DEF Gone, Original, SyncInv, TablesOK

\* Every step that only forgets, or goes on, keeps what was read.
LEMMA StillReads ==
    ASSUME SyncInv, NEW v \in Workers, Reads(task[v]), SyncInv',
           \A l \in Links : born[l] <= born'[l] /\ (Original(l)' => Original(l)),
           task'[v].rows = task[v].rows, task'[v].job = task[v].job,
           \A l \in Links : task'[v].plan[l] \in {task[v].plan[l], "none", "insert", "delete"},
           \/ task'[v].at = task[v].at
           \/ task'[v].at \notin ConfigAt
           \/ task[v].at \in ConfigAt \ {"link"} /\ task'[v].at # "orphan"
    PROVE  Reads(task[v])'
<1>1. \A l \in Links : task[v].rows[l] # NoRow => task[v].rows[l].token \in Nat
  BY TaskFields, BoundsAssumption DEF SyncInv, TasksOK, Row
<1>2. \A l \in Links : born[l] \in Nat /\ born'[l] \in Nat
  BY BoundsAssumption DEF SyncInv, TablesOK
<1>3. \A l \in Links : task'[v].rows[l] # NoRow => task'[v].rows[l].token <= born'[l]
  BY <1>1, <1>2 DEF Reads
<1>4. \A l \in Links :
          /\ task'[v].plan[l] \in {"add", "remove"} => task'[v].rows[l] # NoRow
          /\ task'[v].plan[l] = "orphan" => ~Original(l)'
  BY DEF Reads
<1>5. \A l \in Links :
          /\ task'[v].at \in ConfigAt \ {"link"} /\ task'[v].job.link = l => task'[v].rows[l] # NoRow
          /\ task'[v].at = "orphan" /\ task'[v].job.link = l => ~Original(l)'
  BY DEF Reads, ConfigAt
<1>6. QED
  BY <1>3, <1>4, <1>5 DEF Reads
LEMMA FreeReads ==
    ASSUME NEW w \in Workers, task'[w] = Free
    PROVE  Reads(task[w])'
BY DEF Reads, Free, ConfigAt

\* A sync that reads the rows reads no token of the future.
LEMMA RowsRead ==
    ASSUME SyncInv, SyncInv', ReadsInv, NEW w \in Workers,
           \A l \in Links : born[l] <= born'[l],
           task'[w].rows = row, task'[w].job = task[w].job,
           task'[w].plan = [l \in Links |-> "none"], task'[w].at # "orphan",
           \A l \in Links : task'[w].at \in ConfigAt /\ task[w].job.link = l => row[l] # NoRow
    PROVE  Reads(task[w])'
<1>1. \A l \in Links : row[l] # NoRow => row[l].token \in Nat
  BY BoundsAssumption DEF SyncInv, TablesOK, Row
<1>2. \A l \in Links : born[l] \in Nat /\ born'[l] \in Nat
  BY BoundsAssumption DEF SyncInv, TablesOK
<1>3. \A l \in Links : row[l] # NoRow => row[l].token <= born'[l]
  BY <1>1, <1>2 DEF ReadsInv, RowsInv
<1>4. QED
  BY <1>3 DEF Reads

LEMMA PlayerReads ==
    ASSUME SyncInv, SyncInv', ReadsInv, NEW w \in Workers, PlayerStep(w),
           \A l \in Links : born[l] <= born'[l] /\ (Original(l)' => Original(l))
    PROVE  Others(w) /\ Reads(task[w])'
<1> USE DEF SyncInv, TasksOK
<1>1. Reads(task[w])
  BY DEF ReadsInv
<1>2. CASE Done(w)
  BY <1>2, EndEffect, FreeReads
<1>3. CASE FetchGuilds(w) /\ Goto(w, "rows")
  <2>1. /\ Others(w) /\ task'[w].at = "rows" /\ task'[w].job = task[w].job
        /\ task'[w].rows = task[w].rows /\ task'[w].plan = task[w].plan
    BY <1>3, GotoEffect DEF At
  <2>2. QED
    BY <1>1, <2>1, StillReads DEF ConfigAt
<1>4. CASE ReadRows(w) /\ task' = [task EXCEPT ![w].rows = row, ![w].at = "linked"]
  <2>1. /\ Others(w) /\ task'[w].at = "linked" /\ task'[w].job = task[w].job
        /\ task'[w].rows = row /\ task'[w].plan = task[w].plan /\ task[w].at = "rows"
    BY <1>4, RowsEffect DEF TablesOK, ReadRows, At
  <2>2. task'[w].plan = [l \in Links |-> "none"]
    BY <2>1 DEF Serves
  <2>3. QED
    BY <2>1, <2>2, RowsRead DEF ConfigAt
<1>5. CASE ReadLinked(w) \/ ReadAssigned(w)
  <2>1. /\ Others(w) /\ task'[w].at \in {"assigned", "facts"} /\ task'[w].job = task[w].job
        /\ task'[w].rows = task[w].rows /\ task'[w].plan = task[w].plan
    BY <1>5, LinkedEffect, AssignedEffect
  <2>2. QED
    BY <1>1, <2>1, StillReads DEF ConfigAt
<1>6. CASE Decide(w)
  <2>1. /\ Others(w) /\ task'[w].at = "act" /\ task'[w].job = task[w].job
        /\ task'[w].rows = task[w].rows
        /\ task'[w].plan = [l \in Links |-> Decision(w, l)]
    BY <1>6, PlanEffect
  <2>2. \A l \in Links : /\ Decision(w, l) \in {"add", "remove"} => task[w].rows[l] # NoRow
                         /\ Decision(w, l) # "orphan"
    BY DEF Decision
  <2>3. \A l \in Links : /\ task'[w].plan[l] \in {"add", "remove"} => task[w].rows[l] # NoRow
                         /\ task'[w].plan[l] # "orphan"
    BY <2>1, <2>2
  <2>4. \A l \in Links : task[w].rows[l] # NoRow => task[w].rows[l].token <= born'[l]
    <3>1. \A l \in Links : task[w].rows[l] # NoRow => task[w].rows[l].token \in Nat
      BY TaskFields, BoundsAssumption DEF Row
    <3>2. \A l \in Links : born[l] \in Nat /\ born'[l] \in Nat
      BY BoundsAssumption DEF TablesOK
    <3>3. QED
      BY <1>1, <3>1, <3>2 DEF Reads
  <2>5. QED
    BY <2>1, <2>3, <2>4 DEF Reads, ConfigAt
<1>7. ASSUME NEW l \in Links,
             \/ AddUser(w, l) \/ InsertAssignment(w, l) \/ RemoveUser(w, l)
             \/ DeleteAssignment(w, l) \/ DeleteOrphanOf(w, l)
      PROVE  Others(w) /\ Reads(task[w])'
  <2>1. PICK next \in {"none", "insert", "delete", "orphan"} : Then(w, l, next)
    BY <1>7 DEF AddUser, InsertAssignment, RemoveUser, DeleteAssignment, DeleteOrphanOf
  <2>2. next \in Plan /\ task[w].at = "act"
    BY <1>7, <2>1
    DEF Plan, AddUser, InsertAssignment, RemoveUser, DeleteAssignment, DeleteOrphanOf
  <2>3. /\ Others(w) /\ task'[w].at = "act" /\ task'[w].job = task[w].job
        /\ task'[w].rows = task[w].rows /\ task'[w].plan = [task[w].plan EXCEPT ![l] = next]
    BY <2>1, <2>2, ThenEffect
  <2>4. \A k \in Links : task'[w].plan[k] = IF k = l THEN next ELSE task[w].plan[k]
    BY <2>3, TaskFields
  <2>5. CASE next # "orphan"
    BY <1>1, <2>1, <2>2, <2>3, <2>4, <2>5, StillReads
  <2>6. CASE next = "orphan"
    <3>1. Gone(w, l) /\ task[w].plan[l] \in {"add", "remove"}
      <4>1. ~Then(w, l, "none") /\ ~Then(w, l, "insert") /\ ~Then(w, l, "delete")
        <5>1. ASSUME NEW n \in {"none", "insert", "delete"}, Then(w, l, n) PROVE FALSE
          <6>1. n \in Plan
            BY DEF Plan
          <6>2. task'[w].plan = [task[w].plan EXCEPT ![l] = n]
            BY <5>1, <6>1, ThenEffect
          <6>3. task'[w].plan[l] = n
            BY <6>2, TaskFields
          <6>4. QED
            BY <2>4, <2>6, <6>3
        <5>2. QED
          BY <5>1
      <4>2. QED
        BY <1>7, <4>1 DEF AddUser, InsertAssignment, RemoveUser, DeleteAssignment, DeleteOrphanOf
    <3>2. ~Original(l)'
      BY <1>1, <3>1, GoneIsGone DEF Reads
    <3>3. \A k \in Links : task[w].rows[k] # NoRow => task[w].rows[k].token <= born'[k]
      <4>1. \A k \in Links : task[w].rows[k] # NoRow => task[w].rows[k].token \in Nat
        BY TaskFields, BoundsAssumption DEF Row
      <4>2. \A k \in Links : born[k] \in Nat /\ born'[k] \in Nat
        BY BoundsAssumption DEF TablesOK
      <4>3. QED
        BY <1>1, <4>1, <4>2 DEF Reads
    <3>4. QED
      BY <1>1, <2>3, <2>4, <2>6, <3>2, <3>3 DEF Reads, ConfigAt
  <2>7. QED
    BY <2>5, <2>6
<1>8. QED
  BY <1>2, <1>3, <1>4, <1>5, <1>6, <1>7 DEF PlayerStep, FetchGuilds, ReadRows, EndPlayerSync

LEMMA ConfigReads ==
    ASSUME SyncInv, SyncInv', ReadsInv, NEW w \in Workers, ConfigStep(w), ~InsertRows(w),
           \A l \in Links : born[l] <= born'[l] /\ (Original(l)' => Original(l))
    PROVE  Others(w) /\ Reads(task[w])'
<1> USE DEF SyncInv, TasksOK
<1>1. Reads(task[w])
  BY DEF ReadsInv
<1>2. CASE Done(w) \/ Retry(w)
  BY <1>2, EndEffect, FreeReads
<1>3. PICK l \in Links : task[w].job.link = l
  <2>1. task[w].at \in ConfigAt
    BY DEF ConfigStep, ReadLink, FetchMembers, GetUserInfo, SelectQualifying, Compare, PutUsers,
           DeleteRows, InsertRows, CheckAny, PutNobody, ClearMirror, DeleteOrphan, ConfigAt
  <2>2. QED
    BY <2>1, JobOf
<1>4. CASE ReadLink(w) /\ ~Done(w)
  <2>1. PICK at \in {"drain", "members"} : task' = [task EXCEPT ![w].rows = row, ![w].at = at]
    BY <1>3, <1>4 DEF ReadLink
  <2>2. row[l] # NoRow /\ task[w].at = "link"
    BY <1>3, <1>4 DEF ReadLink
  <2>3. at \in At /\ row \in [Links -> Row \cup {NoRow}]
    BY <2>1 DEF TablesOK, At
  <2>4. /\ Others(w) /\ task'[w].at = at /\ task'[w].job = task[w].job /\ task'[w].rows = row
        /\ task'[w].plan = task[w].plan
    BY <2>1, <2>3, RowsEffect
  <2>5. task'[w].plan = [k \in Links |-> "none"]
    BY <2>2, <2>4 DEF Serves
  <2>6. QED
    BY <1>3, <2>1, <2>2, <2>4, <2>5, RowsRead
<1>5. ASSUME Others(w), task'[w].rows = task[w].rows, task'[w].job = task[w].job,
             task'[w].plan = task[w].plan,
             task[w].at \in ConfigAt \ {"link"}, task'[w].at # "orphan"
      PROVE  Reads(task[w])'
  BY <1>1, <1>5, StillReads
<1>6. CASE FetchMembers(w)
  <2>1. member \subseteq Players /\ task[w].at = "members"
    BY <1>6 DEF TablesOK, FetchMembers
  <2>2. QED
    BY <1>5, <1>6, <2>1, MembersEffect DEF ConfigAt
<1>7. CASE SelectQualifying(w)
  <2>1. task[w].at = "select"
    BY <1>7 DEF SelectQualifying
  <2>2. QED
    BY <1>5, <1>7, <2>1, WantEffect DEF ConfigAt
<1>8. CASE DeleteRows(w)
  <2>1. task[w].at = "delete" /\ mirror \in [Links -> SUBSET Players]
    BY <1>8 DEF DeleteRows, TablesOK
  <2>2. QED
    BY <1>3, <1>5, <1>8, <2>1, SeenEffect DEF ConfigAt
<1>9. ASSUME NEW at \in At \ {"orphan"}, Goto(w, at), task[w].at \in ConfigAt \ {"link"}
      PROVE  Others(w) /\ Reads(task[w])'
  BY <1>5, <1>9, GotoEffect
<1>10. ASSUME Goto(w, "orphan"), Gone(w, l), task[w].at \in ConfigAt \ {"link"}
       PROVE  Others(w) /\ Reads(task[w])'
  <2>1. /\ Others(w) /\ task'[w].at = "orphan" /\ task'[w].rows = task[w].rows
        /\ task'[w].job = task[w].job /\ task'[w].plan = task[w].plan
    BY <1>10, GotoEffect DEF At
  <2>2. task[w].rows[l] # NoRow
    BY <1>1, <1>3, <1>10 DEF Reads
  <2>3. ~Original(l)'
    BY <1>10, <2>2, GoneIsGone
  <2>4. \A k \in Links : task[w].rows[k] # NoRow => task[w].rows[k].token <= born'[k]
    <3>1. \A k \in Links : task[w].rows[k] # NoRow => task[w].rows[k].token \in Nat
      BY TaskFields, BoundsAssumption DEF Row
    <3>2. \A k \in Links : born[k] \in Nat /\ born'[k] \in Nat
      BY BoundsAssumption DEF TablesOK
    <3>3. QED
      BY <1>1, <3>1, <3>2 DEF Reads
  <2>5. QED
    BY <1>1, <1>3, <1>10, <2>1, <2>2, <2>3, <2>4 DEF Reads
<1>11. CASE GetUserInfo(w)
  BY <1>2, <1>3, <1>9, <1>10, <1>11 DEF GetUserInfo, At, ConfigAt
<1>12. CASE PutUsers(w) \/ PutNobody(w)
  BY <1>2, <1>3, <1>9, <1>10, <1>12 DEF PutUsers, PutNobody, Put, At, ConfigAt
<1>13. CASE Compare(w) \/ CheckAny(w)
  BY <1>2, <1>9, <1>13 DEF Compare, CheckAny, At, ConfigAt
<1>14. CASE ClearMirror(w) \/ DeleteOrphan(w)
  BY <1>2, <1>14 DEF ClearMirror, DeleteOrphan
<1>15. QED
  BY <1>2, <1>4, <1>6, <1>7, <1>8, <1>11, <1>12, <1>13, <1>14 DEF ConfigStep

LEMMA RowsStep ==
    ASSUME SyncInv, SyncInv', ReadsInv, [Next]_vars
    PROVE  RowsInv'
<1> USE DEF tables, roleLogic
<1>1. \A l \in Links : born[l] <= born'[l] /\ (Original(l)' => Original(l))
  BY LinksAge
<1>2. \A l \in Links : /\ born[l] \in Nat /\ born'[l] \in Nat
                       /\ row[l] # NoRow => row[l].token \in Nat
  BY BoundsAssumption DEF SyncInv, TablesOK, Row
<1>3. row \in [Links -> Row \cup {NoRow}] /\ RowsInv
  BY DEF SyncInv, TablesOK, ReadsInv
<1>4. ASSUME \A l \in Links : \/ row'[l] = row[l]
                              \/ row'[l] = NoRow /\ ~Original(l)'
                              \/ row'[l] # NoRow /\ row'[l].token \in {row[l].token, born[l]}
                                   /\ (row[l] = NoRow => row'[l].token = born[l])
      PROVE  RowsInv'
  BY <1>1, <1>2, <1>3, <1>4 DEF RowsInv
<1>5. ASSUME NEW k \in Links, DeleteRow(k), ~Original(k)' PROVE RowsInv'
  BY <1>3, <1>4, <1>5 DEF DeleteRow
<1>6. CASE UNCHANGED row
  BY <1>4, <1>6
<1>7. ASSUME NEW w \in Workers, PlayerStep(w) PROVE RowsInv'
  <2>1. row' = row \/ \E k \in Links : DeleteOrphanOf(w, k)
    BY <1>7 DEF PlayerStep, FetchGuilds, ReadRows, ReadLinked, ReadAssigned, Decide, AddUser,
                InsertAssignment, RemoveUser, DeleteAssignment, EndPlayerSync
  <2>2. ASSUME NEW k \in Links, DeleteOrphanOf(w, k) PROVE RowsInv'
    <3>1. ~Original(k)'
      BY <1>1, <2>2 DEF DeleteOrphanOf, ReadsInv, Reads
    <3>2. QED
      BY <1>5, <1>6, <2>2, <3>1 DEF DeleteOrphanOf, RemoveOrphan
  <2>3. QED
    BY <1>6, <2>1, <2>2
<1>8. ASSUME NEW w \in Workers, ConfigStep(w) PROVE RowsInv'
  <2>1. row' = row \/ DeleteOrphan(w)
    BY <1>8 DEF ConfigStep, ReadLink, FetchMembers, GetUserInfo, SelectQualifying, Compare,
                PutUsers, DeleteRows, InsertRows, CheckAny, PutNobody, Put, ClearMirror
  <2>2. CASE DeleteOrphan(w)
    <3>1. task[w].at = "orphan" /\ task[w].job.link \in Links
      BY <2>2, JobOf DEF DeleteOrphan, SyncInv, TasksOK, ConfigAt
    <3>2. PICK k \in Links : task[w].job.link = k
      BY <3>1
    <3>3. ~Original(k)'
      BY <1>1, <3>1, <3>2 DEF ReadsInv, Reads
    <3>4. QED
      BY <1>5, <1>6, <2>2, <3>2, <3>3 DEF DeleteOrphan, RemoveOrphan
  <2>3. QED
    BY <1>6, <2>1, <2>2
<1>9. ASSUME NEW w \in Workers, ReadFails(w) \/ Crash(w) \/ \E j \in Job : Start(w, j)
      PROVE  RowsInv'
  BY <1>6, <1>9 DEF ReadFails, Crash, Start
<1>10. ASSUME NEW k \in Links, NEW tree \in SUBSET Facts, SaveRule(k, tree) PROVE RowsInv'
  <2>1. row[k] \in Row /\ row' = [row EXCEPT ![k] = [row[k] EXCEPT !.tree = tree]]
    BY <1>3, <1>10 DEF SaveRule
  <2>2. [row[k] EXCEPT !.tree = tree] \in Row
        /\ [row[k] EXCEPT !.tree = tree].token = row[k].token
    BY <2>1 DEF Row
  <2>3. \A l \in Links : row'[l] = row[l] \/ (row'[l] \in Row /\ row'[l].token = row[l].token
                                                /\ row[l] # NoRow)
    BY <1>3, <1>10, <2>1, <2>2 DEF SaveRule
  <2>4. QED
    BY <1>4, <2>3, NoRowAssumption
<1>11. ASSUME NEW k \in Links, Register(k) PROVE RowsInv'
  <2>1. \A l \in Links : row'[l] = row[l] \/ (row'[l] # NoRow /\ row'[l].token = born[l])
    <3>1. row' \in [Links -> Row \cup {NoRow}]
      BY DEF SyncInv, TablesOK
    <3> DEFINE r == [token |-> born[k], tree |-> IF row[k] = NoRow THEN {} ELSE row[k].tree]
    <3>2. r \in Row /\ r.token = born[k]
      BY <1>3 DEF SyncInv, TablesOK, Row
    <3>3. row' = [row EXCEPT ![k] = r]
      BY <1>11 DEF Register
    <3> HIDE DEF r
    <3>4. QED
      BY <1>3, <3>2, <3>3, NoRowAssumption
  <2>2. QED
    BY <1>4, <2>1
<1>12. ASSUME NEW k \in Links, UpstreamDelete(k) PROVE RowsInv'
  <2>1. ~Original(k)'
    BY <1>12 DEF UpstreamDelete, Original, SyncInv, TablesOK
  <2>2. QED
    BY <1>5, <1>6, <1>12, <2>1 DEF UpstreamDelete
<1>13. CASE Surroundings
  BY <1>6, <1>10, <1>11, <1>12, <1>13
  DEF Surroundings, ChangeFact, Sever, ChangeMember, SwitchLink, CloseGate, Confirm,
      UpstreamCreate, Reconcile
<1>14. QED
  BY <1>6, <1>7, <1>8, <1>9, <1>13 DEF Next, vars

LEMMA ReadsStep ==
    ASSUME SyncInv, SyncInv', ReadsInv, [Next]_vars
    PROVE  ReadsInv'
<1>1. \A l \in Links : born[l] <= born'[l] /\ (Original(l)' => Original(l))
  BY LinksAge
<1>2. ASSUME NEW v \in Workers, task'[v] = task[v] PROVE Reads(task[v])'
  BY <1>1, <1>2, StillReads DEF ReadsInv
<1>3. ASSUME NEW w \in Workers, Others(w), Reads(task[w])'
      PROVE  \A v \in Workers : Reads(task[v])'
  BY <1>2, <1>3 DEF Others
<1>4. ASSUME NEW w \in Workers, InsertRows(w) PROVE \A v \in Workers : Reads(task[v])'
  <2>1. ASSUME NEW v \in Workers \ {w} PROVE Reads(task[v])'
    <3>1. /\ task'[v].at = task[v].at /\ task'[v].job = task[v].job
          /\ task'[v].rows = task[v].rows /\ task'[v].plan = task[v].plan
      BY <1>4, InsertEffect DEF SyncInv, TasksOK
    <3>2. QED
      BY <1>1, <3>1, StillReads DEF ReadsInv
  <2>2. Reads(task[w])'
    BY <1>4, InsertEffect, FreeReads DEF SyncInv, TasksOK
  <2>3. QED
    BY <2>1, <2>2
<1>5. ASSUME NEW w \in Workers, PlayerStep(w) \/ (ConfigStep(w) /\ ~InsertRows(w))
      PROVE  \A v \in Workers : Reads(task[v])'
  BY <1>1, <1>3, <1>5, PlayerReads, ConfigReads
<1>6. ASSUME NEW w \in Workers, ReadFails(w) \/ Crash(w) PROVE \A v \in Workers : Reads(task[v])'
  <2>1. Others(w) /\ task'[w] = Free
    BY <1>6, EndEffect DEF ReadFails, Crash, SyncInv, TasksOK
  <2>2. QED
    BY <1>3, <2>1, FreeReads
<1>7. ASSUME NEW w \in Workers, NEW j \in Job, Start(w, j)
      PROVE  \A v \in Workers : Reads(task[v])'
  <2>1. task[w] = Free
    BY <1>7 DEF Start, SyncInv, TasksOK, Serves
  <2>2. /\ Others(w) /\ task'[w].at \in {"guilds", "link"} /\ task'[w].rows = Free.rows
        /\ task'[w].plan = Free.plan
    BY <1>7, <2>1, StartEffect DEF SyncInv, TasksOK
  <2>3. Reads(task[w])'
    BY <2>2 DEF Reads, Free, ConfigAt
  <2>4. QED
    BY <1>3, <2>2, <2>3
<1>8. ASSUME UNCHANGED task PROVE \A v \in Workers : Reads(task[v])'
  BY <1>2, <1>8
<1>9. CASE Surroundings
  <2>1. UNCHANGED task
    BY <1>9
    DEF Surroundings, ChangeFact, Sever, ChangeMember, SaveRule, SwitchLink, CloseGate, Confirm,
        UpstreamDelete, UpstreamCreate, Register, Reconcile
  <2>2. QED
    BY <1>8, <2>1, RowsStep DEF ReadsInv
<1>10. QED
  BY <1>4, <1>5, <1>6, <1>7, <1>8, <1>9, RowsStep DEF Next, vars, ReadsInv

\* A write of w to the mirror of l is due, and will change whether p is in it.
Touches(w, l, p) ==
    \/ task[w].plan[l] \in {"insert", "delete"} /\ task[w].job.player = p
    \/ task[w].at \in {"delete", "insert", "drain_delete"} /\ task[w].job.link = l

\* What is due brings the mirror to what RoleLogic holds.
Balanced(w, l) ==
    /\ task[w].plan[l] = "insert" => task[w].job.player \in users[l]
    /\ task[w].plan[l] = "delete" => task[w].job.player \notin users[l]
    /\ task[w].at \in {"delete", "insert", "drain_delete"} /\ task[w].job.link = l =>
          /\ task[w].at = "delete" => users[l] = task[w].want
          /\ task[w].at = "insert" => users[l] = task[w].want /\ mirror[l] = task[w].seen
          /\ task[w].at = "drain_delete" => users[l] = {}

\* The two agree on whom nobody is about to write.
Tracks(l) ==
    /\ \A p \in Players :
          (\A w \in Workers : ~Touches(w, l, p)) => (p \in mirror[l] <=> p \in users[l])
    /\ \A w \in Workers : Balanced(w, l)

MirrorInv(l) == l \notin torn /\ Original(l) => Tracks(l)

\* Two syncs that write l at once are those of two players.  A config_sync
\* shares the link with nobody, and a player is synced by one worker at a time.
NoClash(l) == \A v, w \in Workers :
    v # w /\ IsWriting(v, l) /\ IsWriting(w, l) =>
       /\ task[v].at = "act" /\ task[w].at = "act"
       /\ task[v].job.player # task[w].job.player

\* A step leaves alone what v is about to do to l.
Same(v, l) ==
    /\ task'[v].at = task[v].at /\ task'[v].job = task[v].job
    /\ task'[v].plan[l] = task[v].plan[l] /\ task'[v].want = task[v].want
    /\ task[v].at = "insert" /\ task[v].job.link = l => task'[v].seen = task[v].seen

LEMMA SameWrites ==
    ASSUME NEW v, NEW l, Same(v, l)
    PROVE  /\ IsWriting(v, l)' <=> IsWriting(v, l)
           /\ \A p : Touches(v, l, p)' <=> Touches(v, l, p)
           /\ mirror'[l] = mirror[l] /\ users'[l] = users[l] /\ Balanced(v, l) => Balanced(v, l)'
<1>1. /\ task'[v].at = task[v].at /\ task'[v].job = task[v].job
      /\ task'[v].plan[l] = task[v].plan[l] /\ task'[v].want = task[v].want
      /\ task[v].at = "insert" /\ task[v].job.link = l => task'[v].seen = task[v].seen
  BY DEF Same
<1>2. IsWriting(v, l)' <=> IsWriting(v, l)
  BY <1>1 DEF IsWriting
<1>3. \A p : Touches(v, l, p)' <=> Touches(v, l, p)
  BY <1>1 DEF Touches
<1>4. ASSUME mirror'[l] = mirror[l], users'[l] = users[l], Balanced(v, l)
      PROVE  Balanced(v, l)'
  BY <1>1, <1>4 DEF Balanced
<1>5. QED
  BY <1>2, <1>3, <1>4

LEMMA OthersSame ==
    ASSUME NEW w \in Workers, Others(w), NEW l
    PROVE  \A v \in Workers \ {w} : Same(v, l)
BY DEF Others, Same

\* Who writes nothing of l touches nobody in it, and has nothing to balance.
LEMMA WriterTouches ==
    ASSUME NEW w, NEW l, ~IsWriting(w, l)
    PROVE  (\A p : ~Touches(w, l, p)) /\ Balanced(w, l)
BY DEF IsWriting, Touches, Balanced

LEMMA WriterTouchesNext ==
    ASSUME NEW w, NEW l, ~IsWriting(w, l)'
    PROVE  (\A p : ~Touches(w, l, p)') /\ Balanced(w, l)'
BY DEF IsWriting, Touches, Balanced

\* The step is about another link, or nothing that anybody writes.
LEMMA TracksAside ==
    ASSUME NEW l \in Links, Tracks(l), mirror'[l] = mirror[l], users'[l] = users[l],
           \A w \in Workers : Same(w, l)
    PROVE  Tracks(l)'
<1>1. \A w \in Workers : Balanced(w, l)'
  BY SameWrites DEF Tracks
<1>2. ASSUME NEW p \in Players, \A w \in Workers : ~Touches(w, l, p)'
      PROVE  p \in mirror'[l] <=> p \in users'[l]
  <2>1. \A w \in Workers : ~Touches(w, l, p)
    BY <1>2, SameWrites
  <2>2. QED
    BY <2>1 DEF Tracks
<1>3. QED
  BY <1>1, <1>2 DEF Tracks

\* So is one of a worker that writes nothing of l, before or after.
LEMMA TracksQuiet ==
    ASSUME NEW l \in Links, Tracks(l), mirror'[l] = mirror[l], users'[l] = users[l],
           NEW w \in Workers, \A v \in Workers \ {w} : Same(v, l),
           ~IsWriting(w, l), ~IsWriting(w, l)'
    PROVE  Tracks(l)'
<1>1. \A v \in Workers : Balanced(v, l)'
  BY SameWrites, WriterTouchesNext DEF Tracks
<1>2. ASSUME NEW p \in Players, \A v \in Workers : ~Touches(v, l, p)'
      PROVE  p \in mirror'[l] <=> p \in users'[l]
  <2>1. ASSUME NEW v \in Workers PROVE ~Touches(v, l, p)
    BY <1>2, SameWrites, WriterTouches
  <2>2. QED
    BY <2>1 DEF Tracks
<1>3. QED
  BY <1>1, <1>2 DEF Tracks

\* The only writer of l has it all in his hands.
LEMMA TracksAlone ==
    ASSUME NEW l \in Links, NEW w \in Workers, \A v \in Workers \ {w} : Same(v, l),
           \A v \in Workers \ {w} : ~IsWriting(v, l),
           Balanced(w, l)',
           mirror'[l] = users'[l] \/ \A p \in Players : Touches(w, l, p)'
    PROVE  Tracks(l)'
<1>1. ASSUME NEW v \in Workers PROVE Balanced(v, l)'
  <2>1. CASE v # w
    <3>1. ~IsWriting(v, l)'
      BY <2>1, SameWrites
    <3>2. QED
      BY <3>1, WriterTouchesNext
  <2>2. QED
    BY <2>1
<1>2. QED
  BY <1>1 DEF Tracks

\* Beside a config_sync that writes l nobody does.
LEMMA SoleWriter ==
    ASSUME NEW l \in Links, NoClash(l), NEW w \in Workers, IsWriting(w, l), task[w].at # "act"
    PROVE  \A v \in Workers \ {w} : ~IsWriting(v, l)
BY DEF NoClash

LEMMA SoleWriterNext ==
    ASSUME NEW l \in Links, NoClash(l)', NEW w \in Workers, IsWriting(w, l)', task'[w].at # "act",
           \A v \in Workers \ {w} : Same(v, l)
    PROVE  \A v \in Workers \ {w} : ~IsWriting(v, l)
BY SameWrites DEF NoClash

\* RoleLogic has been told of p, and of nobody else; the mirror is to follow.
LEMMA TracksBegin ==
    ASSUME NEW l \in Links, Tracks(l), NoClash(l)',
           NEW w \in Workers, \A v \in Workers \ {w} : Same(v, l),
           NEW p, task'[w].at = "act", task'[w].job.player = p,
           ~IsWriting(w, l), IsWriting(w, l)', Balanced(w, l)',
           mirror'[l] = mirror[l], \A q : q # p => (q \in users'[l] <=> q \in users[l])
    PROVE  Tracks(l)'
<1>1. ASSUME NEW v \in Workers, v # w PROVE Balanced(v, l)'
  <2>1. CASE IsWriting(v, l)'
    <3>1. task'[v].at = "act" /\ task'[v].job.player # p
      BY <1>1, <2>1 DEF NoClash
    <3>2. task'[v].job = task[v].job /\ task'[v].plan[l] = task[v].plan[l] /\ Balanced(v, l)
      BY <1>1 DEF Same, Tracks
    <3>3. QED
      BY <3>1, <3>2 DEF Balanced
  <2>2. QED
    BY <2>1, WriterTouchesNext
<1>2. ASSUME NEW q \in Players, \A v \in Workers : ~Touches(v, l, q)'
      PROVE  q \in mirror'[l] <=> q \in users'[l]
  <2>1. q # p
    BY <1>2 DEF IsWriting, Touches
  <2>2. ASSUME NEW v \in Workers PROVE ~Touches(v, l, q)
    BY <1>2, SameWrites, WriterTouches
  <2>3. QED
    BY <2>1, <2>2 DEF Tracks
<1>3. QED
  BY <1>1, <1>2 DEF Tracks

\* The mirror has been told of p, and of nobody else.
LEMMA TracksEnd ==
    ASSUME NEW l \in Links, Tracks(l), NoClash(l),
           NEW w \in Workers, \A v \in Workers \ {w} : Same(v, l),
           NEW p, task[w].at = "act", task[w].job.player = p,
           IsWriting(w, l), ~IsWriting(w, l)', users'[l] = users[l],
           p \in mirror'[l] <=> p \in users[l],
           \A q : q # p => (q \in mirror'[l] <=> q \in mirror[l])
    PROVE  Tracks(l)'
<1>1. ASSUME NEW v \in Workers, v # w PROVE Balanced(v, l)'
  <2>1. CASE IsWriting(v, l)
    <3>1. task[v].at = "act" /\ task'[v].at = "act"
      BY <1>1, <2>1 DEF NoClash, Same
    <3>2. task'[v].job = task[v].job /\ task'[v].plan[l] = task[v].plan[l] /\ Balanced(v, l)
      BY <1>1 DEF Same, Tracks
    <3>3. QED
      BY <3>1, <3>2 DEF Balanced
  <2>2. CASE ~IsWriting(v, l)
    BY <1>1, <2>2, SameWrites, WriterTouchesNext
  <2>3. QED
    BY <2>1, <2>2
<1>2. ASSUME NEW q \in Players, \A v \in Workers : ~Touches(v, l, q)'
      PROVE  q \in mirror'[l] <=> q \in users'[l]
  <2>1. CASE q # p
    <3>1. ASSUME NEW v \in Workers PROVE ~Touches(v, l, q)
      <4>1. CASE v = w
        BY <2>1, <4>1 DEF Touches
      <4>2. CASE v # w
        BY <1>2, <4>2, SameWrites
      <4>3. QED
        BY <4>1, <4>2
    <3>2. QED
      BY <2>1, <3>1 DEF Tracks
  <2>2. QED
    BY <2>1
<1>3. QED
  BY <1>1, <1>2, WriterTouchesNext DEF Tracks

LEMMA FreeIdle ==
    ASSUME NEW w \in Workers, NEW l \in Links, task'[w] = Free
    PROVE  ~IsWriting(w, l)'
BY DEF IsWriting, Free

\* In a sync of a player only the plan tells whether a write is to come; in a
\* sync of a link only the point it has reached.
LEMMA WhoWrites ==
    ASSUME NEW w \in Workers, NEW l \in Links, Serves(task[w])
    PROVE  /\ task[w].at = "act" =>
                 (IsWriting(w, l) <=> task[w].plan[l] \in {"insert", "delete"})
           /\ task[w].at \in At \ {"act", "delete", "insert", "drain_delete"} => ~IsWriting(w, l)
           /\ task[w].at \in {"delete", "insert", "drain_delete"} =>
                 (IsWriting(w, l) <=> task[w].job.link = l)
BY DEF IsWriting, Serves

LEMMA PlayerTracks ==
    ASSUME SyncInv, SyncInv', ReadsInv, NEW w \in Workers, PlayerStep(w),
           NEW l \in Links, NoClash(l), NoClash(l)', Tracks(l), l \notin torn', Original(l)
    PROVE  Tracks(l)'
<1> USE DEF SyncInv, TasksOK
<1> DEFINE p == task[w].job.player
<1>1. ASSUME Others(w) PROVE \A v \in Workers \ {w} : Same(v, l)
  BY <1>1, OthersSame
<1>2. /\ task'[w] \in Task /\ Serves(task'[w]) /\ Serves(task[w]) /\ task[w] \in Task
      /\ users \in [Links -> SUBSET Players] /\ mirror \in [Links -> SUBSET Players]
  BY DEF TablesOK
<1>3. CASE \/ FetchGuilds(w) \/ ReadRows(w) \/ ReadLinked(w) \/ ReadAssigned(w) \/ Decide(w)
           \/ EndPlayerSync(w)
  <2>1. mirror' = mirror /\ users' = users
    BY <1>3 DEF FetchGuilds, ReadRows, ReadLinked, ReadAssigned, Decide, EndPlayerSync, tables,
                roleLogic
  <2>2. ~IsWriting(w, l)
    BY <1>2, <1>3, WhoWrites
    DEF FetchGuilds, ReadRows, ReadLinked, ReadAssigned, Decide, EndPlayerSync, At
  <2>3. Others(w) /\ ~IsWriting(w, l)'
    <3>1. CASE Done(w)
      BY <3>1, EndEffect, FreeIdle
    <3>2. CASE Decide(w)
      <4>1. Others(w) /\ task'[w].at = "act" /\ task'[w].plan = [k \in Links |-> Decision(w, k)]
        BY <3>2, PlanEffect
      <4>2. Decision(w, l) \notin {"insert", "delete"}
        BY DEF Decision
      <4>3. QED
        BY <4>1, <4>2 DEF IsWriting
    <3>3. CASE FetchGuilds(w) /\ Goto(w, "rows")
      <4>1. Others(w) /\ task'[w].at = "rows"
        BY <3>3, GotoEffect DEF At
      <4>2. QED
        BY <1>2, <4>1 DEF IsWriting, Serves
    <3>4. CASE ReadRows(w) /\ task' = [task EXCEPT ![w].rows = row, ![w].at = "linked"]
      <4>1. "linked" \in At /\ row \in [Links -> Row \cup {NoRow}]
        BY DEF TablesOK, At
      <4>2. task \in [Workers -> Task]
        OBVIOUS
      <4>3. Others(w) /\ task'[w].at = "linked"
        BY <3>4, <4>1, <4>2, RowsEffect, Zenon
      <4>4. QED
        BY <1>2, <4>3 DEF IsWriting, Serves
    <3>5. CASE ReadLinked(w) \/ ReadAssigned(w)
      <4>1. Others(w) /\ task'[w].at \in {"assigned", "facts"}
        BY <3>5, LinkedEffect, AssignedEffect
      <4>2. QED
        BY <1>2, <4>1 DEF IsWriting, Serves
    <3>6. QED
      BY <1>3, <3>1, <3>2, <3>3, <3>4, <3>5 DEF FetchGuilds, ReadRows, EndPlayerSync
  <2>4. QED
    BY <1>1, <2>1, <2>2, <2>3, TracksQuiet
<1>4. ASSUME NEW k \in Links, NEW next \in Plan, Then(w, k, next), task[w].at = "act"
      PROVE  /\ Others(w)
             /\ task'[w].at = "act" /\ task'[w].job = task[w].job
             /\ task'[w].want = task[w].want /\ task'[w].seen = task[w].seen
             /\ task'[w].plan[l] = IF k = l THEN next ELSE task[w].plan[l]
  <2>1. /\ Others(w)
        /\ task'[w].at = "act" /\ task'[w].job = task[w].job
        /\ task'[w].want = task[w].want /\ task'[w].seen = task[w].seen
        /\ task'[w].plan = [task[w].plan EXCEPT ![k] = next]
    BY <1>4, ThenEffect
  <2>2. QED
    BY <2>1, TaskFields
<1>5. ASSUME NEW k \in Links, k # l,
             \/ AddUser(w, k) \/ InsertAssignment(w, k) \/ RemoveUser(w, k)
             \/ DeleteAssignment(w, k) \/ DeleteOrphanOf(w, k)
      PROVE  Tracks(l)'
  <2>1. PICK next \in {"none", "insert", "delete", "orphan"} : Then(w, k, next)
    BY <1>5 DEF AddUser, InsertAssignment, RemoveUser, DeleteAssignment, DeleteOrphanOf
  <2>2. next \in Plan /\ task[w].at = "act"
    BY <1>5, <2>1
    DEF Plan, AddUser, InsertAssignment, RemoveUser, DeleteAssignment, DeleteOrphanOf
  <2>3. users'[l] = users[l]
    BY <1>2, <1>5
    DEF AddUser, InsertAssignment, RemoveUser, DeleteAssignment, DeleteOrphanOf, roleLogic
  <2>4. mirror'[l] = mirror[l]
    BY <1>2, <1>5
    DEF AddUser, InsertAssignment, RemoveUser, DeleteAssignment, DeleteOrphanOf, RemoveOrphan,
        DeleteRow, tables
  <2>5. Others(w) /\ Same(w, l)
    BY <1>4, <1>5, <2>1, <2>2 DEF Same
  <2>6. QED
    BY <1>1, <2>3, <2>4, <2>5, TracksAside
<1>6. ASSUME NEW next \in {"none", "orphan"}, Then(w, l, next), task[w].at = "act"
      PROVE  Others(w) /\ ~IsWriting(w, l)'
  <2>1. Others(w) /\ task'[w].at = "act" /\ task'[w].plan[l] = next
    BY <1>4, <1>6 DEF Plan
  <2>2. QED
    BY <2>1 DEF IsWriting
<1>7. CASE AddUser(w, l)
  <2>1. task[w].at = "act" /\ task[w].plan[l] = "add" /\ mirror' = mirror
    BY <1>7 DEF AddUser, tables
  <2>2. ~IsWriting(w, l)
    BY <1>2, <2>1, WhoWrites
  <2>3. CASE users' = users /\ \E next \in {"none", "orphan"} : Then(w, l, next)
    BY <1>1, <1>6, <2>1, <2>2, <2>3, TracksQuiet
  <2>4. CASE users' = [users EXCEPT ![l] = @ \cup {p}] /\ Then(w, l, "insert")
    <3>1. /\ Others(w) /\ task'[w].at = "act" /\ task'[w].plan[l] = "insert"
          /\ task'[w].job = task[w].job
      BY <1>4, <2>1, <2>4 DEF Plan
    <3>2. users'[l] = users[l] \cup {p}
      BY <1>2, <2>4
    <3>3. IsWriting(w, l)' /\ Balanced(w, l)'
      BY <3>1, <3>2 DEF IsWriting, Balanced
    <3>4. \A q : q # p => (q \in users'[l] <=> q \in users[l])
      BY <3>2
    <3>5. QED
      BY <1>1, <2>1, <2>2, <3>1, <3>3, <3>4, TracksBegin
  <2>5. ~Torn({l})
    BY DEF Torn
  <2>6. QED
    BY <1>7, <2>3, <2>4, <2>5 DEF AddUser
<1>8. CASE RemoveUser(w, l)
  <2>1. task[w].at = "act" /\ task[w].plan[l] = "remove" /\ mirror' = mirror
    BY <1>8 DEF RemoveUser, tables
  <2>2. ~IsWriting(w, l)
    BY <1>2, <2>1, WhoWrites
  <2>3. CASE users' = users /\ \E next \in {"none", "orphan"} : Then(w, l, next)
    BY <1>1, <1>6, <2>1, <2>2, <2>3, TracksQuiet
  <2>4. CASE users' = [users EXCEPT ![l] = @ \ {p}] /\ Then(w, l, "delete")
    <3>1. /\ Others(w) /\ task'[w].at = "act" /\ task'[w].plan[l] = "delete"
          /\ task'[w].job = task[w].job
      BY <1>4, <2>1, <2>4 DEF Plan
    <3>2. users'[l] = users[l] \ {p}
      BY <1>2, <2>4
    <3>3. IsWriting(w, l)' /\ Balanced(w, l)'
      BY <3>1, <3>2 DEF IsWriting, Balanced
    <3>4. \A q : q # p => (q \in users'[l] <=> q \in users[l])
      BY <3>2
    <3>5. QED
      BY <1>1, <2>1, <2>2, <3>1, <3>3, <3>4, TracksBegin
  <2>5. ~Torn({l})
    BY DEF Torn
  <2>6. QED
    BY <1>8, <2>3, <2>4, <2>5 DEF RemoveUser
<1>9. CASE InsertAssignment(w, l) \/ DeleteAssignment(w, l)
  <2>1. /\ task[w].at = "act" /\ task[w].plan[l] \in {"insert", "delete"} /\ users' = users
        /\ Then(w, l, "none")
    BY <1>9 DEF InsertAssignment, DeleteAssignment, roleLogic
  <2>2. row[l] # NoRow
    BY DEF ReadsInv, RowsInv
  <2>3. Balanced(w, l) /\ IsWriting(w, l)
    BY <2>1 DEF Tracks, IsWriting
  <2>4. ~Torn({l})
    BY DEF Torn
  <2>5. \/ task[w].plan[l] = "insert" /\ mirror'[l] = mirror[l] \cup {p} /\ p \in users[l]
        \/ task[w].plan[l] = "delete" /\ mirror'[l] = mirror[l] \ {p} /\ p \notin users[l]
    BY <1>2, <1>9, <2>2, <2>3, <2>4 DEF InsertAssignment, DeleteAssignment, Balanced
  <2>6. /\ p \in mirror'[l] <=> p \in users[l]
        /\ \A q : q # p => (q \in mirror'[l] <=> q \in mirror[l])
    BY <2>5
  <2>7. Others(w) /\ ~IsWriting(w, l)'
    BY <1>6, <2>1
  <2>8. QED
    BY <1>1, <2>1, <2>3, <2>6, <2>7, TracksEnd
<1>10. ~DeleteOrphanOf(w, l)
  BY DEF DeleteOrphanOf, ReadsInv, Reads
<1>11. QED
  BY <1>3, <1>5, <1>7, <1>8, <1>9, <1>10 DEF PlayerStep

LEMMA ConfigTracks ==
    ASSUME SyncInv, SyncInv', ReadsInv, NEW w \in Workers, ConfigStep(w),
           NEW l \in Links, NoClash(l), NoClash(l)', Tracks(l), l \notin torn', Original(l)
    PROVE  Tracks(l)'
<1> USE DEF SyncInv, TasksOK
<1>1. ASSUME Others(w) PROVE \A v \in Workers \ {w} : Same(v, l)
  BY <1>1, OthersSame
<1>2. /\ task'[w] \in Task /\ Serves(task'[w]) /\ Serves(task[w]) /\ task[w] \in Task
      /\ users \in [Links -> SUBSET Players] /\ mirror \in [Links -> SUBSET Players]
  BY DEF TablesOK
<1>3. PICK k \in Links : task[w].job.link = k
  <2>1. task[w].at \in ConfigAt
    BY DEF ConfigStep, ReadLink, FetchMembers, GetUserInfo, SelectQualifying, Compare, PutUsers,
           DeleteRows, InsertRows, CheckAny, PutNobody, ClearMirror, DeleteOrphan, ConfigAt
  <2>2. QED
    BY <2>1, JobOf
\* The sync ends without having written anything of l ...
<1>4. ASSUME Done(w) \/ Retry(w), ~IsWriting(w, l), mirror'[l] = mirror[l], users'[l] = users[l]
      PROVE  Tracks(l)'
  BY <1>1, <1>4, EndEffect, FreeIdle, TracksQuiet
\* ... or with the write that was due.
<1>5. ASSUME task[w].at \in {"insert", "drain_delete"}, IsWriting(w, l),
             \A v \in Workers \ {w} : Same(v, l), task'[w] = Free, mirror'[l] = users'[l]
      PROVE  Tracks(l)'
  <2>1. \A v \in Workers \ {w} : ~IsWriting(v, l)
    BY <1>5, SoleWriter
  <2>2. Balanced(w, l)'
    BY <1>5, FreeIdle, WriterTouchesNext
  <2>3. QED
    BY <1>5, <2>1, <2>2, TracksAlone
<1>6. CASE \/ ReadLink(w) \/ FetchMembers(w) \/ GetUserInfo(w) \/ SelectQualifying(w)
           \/ Compare(w) \/ CheckAny(w)
  <2>1. mirror' = mirror /\ users' = users
    BY <1>6 DEF ReadLink, FetchMembers, GetUserInfo, SelectQualifying, Compare, CheckAny, tables,
                roleLogic
  <2>2. ~IsWriting(w, l)
    BY <1>2, <1>6, WhoWrites
    DEF ReadLink, FetchMembers, GetUserInfo, SelectQualifying, Compare, CheckAny, At
  <2>3. ASSUME Others(w),
               task'[w].at \in {"drain", "members", "info", "select", "compare", "put",
                                "drain_put", "orphan"}
        PROVE  Tracks(l)'
    <3>1. ~IsWriting(w, l)'
      BY <1>2, <2>3 DEF IsWriting, Serves
    <3>2. QED
      BY <1>1, <2>1, <2>2, <2>3, <3>1, TracksQuiet
  <2>4. CASE ReadLink(w) /\ ~Done(w)
    <3>1. PICK at \in {"drain", "members"} : task' = [task EXCEPT ![w].rows = row, ![w].at = at]
      BY <1>3, <2>4 DEF ReadLink
    <3>2. at \in At /\ row \in [Links -> Row \cup {NoRow}]
      BY <3>1 DEF TablesOK, At
    <3>3. task \in [Workers -> Task]
      OBVIOUS
    <3>4. Others(w) /\ task'[w].at = at
      BY <3>1, <3>2, <3>3, RowsEffect, Zenon
    <3>5. QED
      BY <2>3, <3>1, <3>4
  <2>5. CASE FetchMembers(w)
    <3>1. member \subseteq Players
      BY DEF TablesOK
    <3>2. QED
      BY <2>3, <2>5, <3>1, MembersEffect
  <2>6. CASE SelectQualifying(w)
    BY <2>3, <2>6, WantEffect
  <2>7. ASSUME NEW at \in {"select", "put", "drain_put", "orphan"}, Goto(w, at) PROVE Tracks(l)'
    <3>1. at \in At
      BY DEF At
    <3>2. QED
      BY <2>3, <2>7, <3>1, GotoEffect
  <2>8. QED
    BY <1>4, <1>6, <2>1, <2>2, <2>4, <2>5, <2>6, <2>7 DEF ReadLink, GetUserInfo, Compare, CheckAny
<1>7. ASSUME NEW S, NEW next \in {"delete", "drain_delete"}, Put(w, S, next),
             \/ task[w].at = "put" /\ next = "delete" /\ S = task[w].want
             \/ task[w].at = "drain_put" /\ next = "drain_delete" /\ S = {}
      PROVE  Tracks(l)'
  <2>1. mirror' = mirror
    BY <1>7 DEF Put
  <2>2. ~IsWriting(w, l)
    BY <1>2, <1>7, WhoWrites DEF At
  <2>3. CASE users' = users /\ (Done(w) \/ Retry(w))
    BY <1>4, <2>1, <2>2, <2>3
  <2>4. CASE users' = users /\ Goto(w, "orphan")
    <3>1. Others(w) /\ task'[w].at = "orphan"
      BY <2>4, GotoEffect DEF At
    <3>2. ~IsWriting(w, l)'
      BY <1>2, <3>1 DEF IsWriting, Serves
    <3>3. QED
      BY <1>1, <2>1, <2>2, <2>4, <3>1, <3>2, TracksQuiet
  <2>5. CASE users' = [users EXCEPT ![k] = S] /\ Goto(w, next)
    <3>1. next \in At
      BY DEF At
    <3>2. Others(w) /\ task'[w].at = next /\ task'[w].job = task[w].job /\ task'[w].want = task[w].want
      BY <2>5, <3>1, GotoEffect
    <3>3. CASE k = l
      <4>1. users'[l] = S
        BY <1>2, <2>5, <3>3
      <4>2. IsWriting(w, l)' /\ \A p \in Players : Touches(w, l, p)'
        BY <1>3, <3>2, <3>3 DEF IsWriting, Touches
      <4>3. task'[w].plan[l] = "none"
        BY <1>2, <3>2 DEF Serves
      <4>4. Balanced(w, l)'
        BY <1>7, <3>2, <4>1, <4>3 DEF Balanced
      <4>5. \A v \in Workers \ {w} : ~IsWriting(v, l)
        BY <1>1, <3>2, <4>2, SoleWriterNext
      <4>6. QED
        BY <1>1, <3>2, <4>2, <4>4, <4>5, TracksAlone
    <3>4. CASE k # l
      <4>1. users'[l] = users[l]
        BY <1>2, <2>5, <3>4
      <4>2. ~IsWriting(w, l)'
        BY <1>2, <1>3, <3>2, <3>4 DEF IsWriting, Serves
      <4>3. QED
        BY <1>1, <2>1, <2>2, <3>2, <4>1, <4>2, TracksQuiet
    <3>5. QED
      BY <3>3, <3>4
  <2>6. CASE users' = [users EXCEPT ![k] = S] /\ Retry(w) /\ Torn({k})
    <3>1. k # l
      BY <2>6 DEF Torn
    <3>2. users'[l] = users[l]
      BY <1>2, <2>6, <3>1
    <3>3. QED
      BY <1>4, <2>1, <2>2, <2>6, <3>2
  <2>7. QED
    BY <1>3, <1>7, <2>3, <2>4, <2>5, <2>6 DEF Put
<1>8. CASE PutUsers(w) \/ PutNobody(w)
  BY <1>7, <1>8 DEF PutUsers, PutNobody
<1>9. CASE DeleteRows(w)
  <2>1. /\ Others(w)
        /\ task'[w].at = "insert" /\ task'[w].job = task[w].job /\ task'[w].want = task[w].want
        /\ task'[w].seen = mirror[k] /\ task[w].at = "delete"
    <3>1. task[w].at = "delete"
      BY <1>9 DEF DeleteRows
    <3>2. Others(w)
      BY <1>2, <1>3, <1>9, SeenEffect
    <3>3. /\ task'[w].at = "insert" /\ task'[w].job = task[w].job
          /\ task'[w].want = task[w].want /\ task'[w].seen = mirror[k]
      BY <1>2, <1>3, <1>9, SeenEffect
    <3>4. QED
      BY <3>1, <3>2, <3>3
  <2>2. mirror' = mirror /\ users' = users
    BY <1>9 DEF DeleteRows, tables, roleLogic
  <2>3. CASE k = l
    <3>1. users[l] = task[w].want /\ IsWriting(w, l)
      BY <1>3, <2>1, <2>3 DEF Tracks, Balanced, IsWriting
    <3>2. task'[w].plan[l] = "none" /\ \A p \in Players : Touches(w, l, p)'
      BY <1>2, <1>3, <2>1, <2>3 DEF Touches, Serves
    <3>3. Balanced(w, l)'
      BY <2>1, <2>2, <2>3, <3>1, <3>2 DEF Balanced
    <3>4. \A v \in Workers \ {w} : ~IsWriting(v, l)
      BY <2>1, <3>1, SoleWriter
    <3>5. QED
      BY <1>1, <2>1, <3>2, <3>3, <3>4, TracksAlone
  <2>4. CASE k # l
    <3>1. ~IsWriting(w, l) /\ ~IsWriting(w, l)'
      BY <1>2, <1>3, <2>1, <2>4 DEF IsWriting, Serves
    <3>2. QED
      BY <1>1, <2>1, <2>2, <3>1, TracksQuiet
  <2>5. QED
    BY <2>3, <2>4
<1>10. CASE InsertRows(w)
  <2>1. task[w].at = "insert" /\ users' = users /\ task'[w] = Free
    BY <1>10, InsertEffect DEF InsertRows, roleLogic
  <2>2. CASE k = l
    <3>1. row[l] # NoRow
      BY DEF ReadsInv, RowsInv
    <3>2. users[l] = task[w].want /\ mirror[l] = task[w].seen /\ IsWriting(w, l)
      BY <1>3, <2>1, <2>2 DEF Tracks, Balanced, IsWriting
    <3>3. mirror[k] \ task[w].seen = {} /\ row[k] # NoRow
      BY <2>2, <3>1, <3>2
    <3>4. mirror' = [mirror EXCEPT ![k] = task[w].want]
      BY <1>3, <1>10, <3>3 DEF InsertRows
    <3>5. mirror'[l] = users'[l]
      BY <1>2, <2>1, <2>2, <3>2, <3>4
    <3>6. ASSUME NEW v \in Workers \ {w} PROVE Same(v, l)
      <4>1. ~IsWriting(v, l)
        BY <2>1, <3>2, SoleWriter
      <4>2. ~(task[v].at = "insert" /\ task[v].job.link = l)
        BY <4>1 DEF IsWriting
      <4>3. QED
        BY <1>10, <4>2, InsertEffect DEF Same
    <3>7. QED
      BY <1>5, <2>1, <3>2, <3>5, <3>6
  <2>3. CASE k # l
    <3>1. ~IsWriting(w, l)
      BY <1>2, <1>3, <2>1, <2>3, WhoWrites
    <3>2. mirror'[l] = mirror[l]
      BY <1>2, <1>3, <1>10, <2>3 DEF InsertRows
    <3>3. \A v \in Workers \ {w} : Same(v, l)
      BY <1>3, <1>10, <2>3, InsertEffect DEF Same
    <3>4. ~IsWriting(w, l)'
      BY <2>1, FreeIdle
    <3>5. QED
      BY <2>1, <3>1, <3>2, <3>3, <3>4, TracksQuiet
  <2>4. QED
    BY <2>2, <2>3
<1>11. CASE ClearMirror(w)
  <2>1. /\ task[w].at = "drain_delete" /\ users' = users /\ Done(w)
        /\ mirror' = [mirror EXCEPT ![k] = {}]
    BY <1>3, <1>11 DEF ClearMirror, roleLogic
  <2>2. CASE k = l
    <3>1. users[l] = {} /\ IsWriting(w, l)
      BY <1>3, <2>1, <2>2 DEF Tracks, Balanced, IsWriting
    <3>2. mirror'[l] = users'[l]
      BY <1>2, <2>1, <2>2, <3>1
    <3>3. QED
      BY <1>1, <1>5, <2>1, <3>1, <3>2, EndEffect
  <2>3. CASE k # l
    <3>1. ~IsWriting(w, l)
      BY <1>2, <1>3, <2>1, <2>3, WhoWrites
    <3>2. QED
      BY <1>2, <1>4, <2>1, <2>3, <3>1
  <2>4. QED
    BY <2>2, <2>3
<1>12. CASE DeleteOrphan(w)
  <2>1. task[w].at = "orphan" /\ users' = users /\ Done(w) /\ RemoveOrphan(k)
    BY <1>3, <1>12 DEF DeleteOrphan, roleLogic
  <2>2. k # l
    BY <1>3, <2>1 DEF ReadsInv, Reads
  <2>3. mirror'[l] = mirror[l]
    BY <1>2, <2>1, <2>2 DEF RemoveOrphan, DeleteRow
  <2>4. ~IsWriting(w, l)
    BY <1>2, <2>1, WhoWrites DEF At
  <2>5. QED
    BY <1>4, <2>1, <2>3, <2>4
<1>13. QED
  BY <1>6, <1>8, <1>9, <1>10, <1>11, <1>12 DEF ConfigStep

LEMMA SurroundingTracks ==
    ASSUME SyncInv, Surroundings, NEW l \in Links, Tracks(l), Original(l)'
    PROVE  Tracks(l)'
<1> USE DEF tables, roleLogic
<1>1. task' = task
  BY DEF Surroundings, ChangeFact, Sever, ChangeMember, SaveRule, SwitchLink, CloseGate, Confirm,
         UpstreamDelete, UpstreamCreate, Register, Reconcile
<1>2. ASSUME NEW k \in Links, UpstreamDelete(k)
      PROVE  mirror'[l] = mirror[l] /\ users'[l] = users[l]
  <2>1. k # l
    BY <1>2 DEF UpstreamDelete, Original, SyncInv, TablesOK
  <2>2. QED
    BY <1>2, <2>1 DEF UpstreamDelete, DeleteRow, SyncInv, TablesOK
<1>3. mirror'[l] = mirror[l] /\ users'[l] = users[l]
  BY <1>2
  DEF Surroundings, ChangeFact, Sever, ChangeMember, SaveRule, SwitchLink, CloseGate, Confirm,
      UpstreamCreate, Register, Reconcile
<1>4. \A w \in Workers : Same(w, l)
  BY <1>1 DEF Same
<1>5. QED
  BY <1>3, <1>4, TracksAside

\* Once torn, torn for good: the mirror is known to be off until it is rebuilt.
LEMMA TornGrows ==
    ASSUME SyncInv, [Next]_vars
    PROVE  torn \subseteq torn'
<1>1. UNCHANGED torn \/ \E S \in SUBSET Links : torn' = torn \cup S
  <2>1. ASSUME NEW w \in Workers, PlayerStep(w)
        PROVE UNCHANGED torn \/ \E S \in SUBSET Links : torn' = torn \cup S
    <3>1. ASSUME NEW l \in Links,
                 \/ AddUser(w, l) \/ InsertAssignment(w, l) \/ RemoveUser(w, l)
                 \/ DeleteAssignment(w, l) \/ DeleteOrphanOf(w, l)
          PROVE  UNCHANGED torn \/ torn' = torn \cup {l}
      BY <3>1 DEF AddUser, InsertAssignment, RemoveUser, DeleteAssignment, DeleteOrphanOf,
                  RemoveOrphan, Error, Torn, bounds
    <3>2. CASE \/ FetchGuilds(w) \/ ReadRows(w) \/ ReadLinked(w) \/ ReadAssigned(w) \/ Decide(w)
               \/ EndPlayerSync(w)
      BY <3>2 DEF FetchGuilds, ReadRows, ReadLinked, ReadAssigned, Decide, EndPlayerSync, Error,
                  bounds
    <3>3. QED
      BY <2>1, <3>1, <3>2 DEF PlayerStep
  <2>2. ASSUME NEW w \in Workers, ConfigStep(w)
        PROVE UNCHANGED torn \/ torn' = torn \cup {task[w].job.link}
    BY <2>2 DEF ConfigStep, ReadLink, FetchMembers, GetUserInfo, SelectQualifying, Compare,
                PutUsers, DeleteRows, InsertRows, CheckAny, PutNobody, Put, ClearMirror,
                DeleteOrphan, RemoveOrphan, Error, Torn, bounds
  <2>3. ASSUME NEW w \in Workers, ConfigStep(w) PROVE task[w].job.link \in Links
    BY <2>3, JobOf
    DEF ConfigStep, ReadLink, FetchMembers, GetUserInfo, SelectQualifying, Compare, PutUsers,
        DeleteRows, InsertRows, CheckAny, PutNobody, ClearMirror, DeleteOrphan, ConfigAt,
        SyncInv, TasksOK
  <2>4. CASE Surroundings
    BY <2>4
    DEF Surroundings, ChangeFact, Sever, ChangeMember, SaveRule, SwitchLink, CloseGate,
        Confirm, UpstreamDelete, UpstreamCreate, Register, Reconcile, WithJob, Change, bounds
  <2>5. ASSUME NEW w \in Workers, ReadFails(w) \/ Crash(w) \/ \E j \in Job : Start(w, j)
        PROVE UNCHANGED torn \/ \E S \in SUBSET Links : torn' = torn \cup S
    BY <2>5 DEF ReadFails, Crash, Start, Error, Torn, bounds
  <2>6. QED
    BY <2>1, <2>2, <2>3, <2>4, <2>5 DEF Next, vars, bounds
<1>2. QED
  BY <1>1

LEMMA TracksStep ==
    ASSUME SyncInv, SyncInv', ReadsInv, NEW l \in Links, NoClash(l), NoClash(l)', MirrorInv(l),
           [Next]_vars
    PROVE  MirrorInv(l)'
<1> SUFFICES ASSUME l \notin torn', Original(l)' PROVE Tracks(l)'
  BY DEF MirrorInv
<1>1. Original(l)
  BY LinksAge
<1>2. Tracks(l)
  BY <1>1, TornGrows DEF MirrorInv
<1>3. ASSUME NEW w \in Workers, Others(w), ~IsWriting(w, l), ~IsWriting(w, l)',
             UNCHANGED <<mirror, users>>
      PROVE  Tracks(l)'
  <2>1. \A v \in Workers \ {w} : Same(v, l)
    BY <1>3, OthersSame
  <2>2. QED
    BY <1>2, <1>3, <2>1, TracksQuiet
<1>4. ASSUME NEW w \in Workers, ReadFails(w) PROVE Tracks(l)'
  <2>1. Others(w) /\ task'[w] = Free
    BY <1>4, EndEffect DEF ReadFails, SyncInv, TasksOK
  <2>2. ~IsWriting(w, l)
    BY <1>4, WhoWrites DEF ReadFails, SyncInv, TasksOK, At
  <2>3. QED
    BY <1>3, <1>4, <2>1, <2>2, FreeIdle DEF ReadFails, roleLogic
<1>5. ASSUME NEW w \in Workers, Crash(w) PROVE Tracks(l)'
  <2>1. Others(w) /\ task'[w] = Free
    BY <1>5, EndEffect DEF Crash, SyncInv, TasksOK
  <2>2. ~IsWriting(w, l)
    BY <1>5 DEF Crash, Torn
  <2>3. QED
    BY <1>3, <1>5, <2>1, <2>2, FreeIdle DEF Crash, roleLogic
<1>6. ASSUME NEW w \in Workers, NEW j \in Job, Start(w, j) PROVE Tracks(l)'
  <2>1. task[w] = Free
    BY <1>6 DEF Start, SyncInv, TasksOK, Serves
  <2>2. ~IsWriting(w, l)
    BY <2>1 DEF IsWriting, Free
  <2>3. Others(w) /\ task'[w].at \in {"guilds", "link"} /\ task'[w].plan = Free.plan
    BY <1>6, <2>1, StartEffect DEF SyncInv, TasksOK
  <2>4. ~IsWriting(w, l)'
    BY <2>3 DEF IsWriting, Free
  <2>5. QED
    BY <1>3, <1>6, <2>2, <2>3, <2>4 DEF Start, roleLogic
<1>7. CASE UNCHANGED vars
  <2>1. \A w \in Workers : Same(w, l)
    BY <1>7 DEF vars, Same
  <2>2. mirror'[l] = mirror[l] /\ users'[l] = users[l]
    BY <1>7 DEF vars, tables, roleLogic
  <2>3. QED
    BY <1>2, <2>1, <2>2, TracksAside
<1>8. QED
  BY <1>1, <1>2, <1>4, <1>5, <1>6, <1>7, PlayerTracks, ConfigTracks, SurroundingTracks DEF Next

LEMMA MirrorInit ==
    ASSUME Init
    PROVE  ReadsInv /\ \A l \in Links : MirrorInv(l)
<1>1. \A l \in Links : row[l] \in [token : {1}, tree : SUBSET Facts]
  BY DEF Init
<1>2. \A l \in Links : row[l] # NoRow /\ row[l].token = 1 /\ born[l] = 1
  BY <1>1, NoRowAssumption, BoundsAssumption DEF Row, Init
<1>3. RowsInv
  BY <1>2 DEF RowsInv
<1>4. \A w \in Workers : Reads(task[w])
  BY DEF Init, Reads, Free, ConfigAt
<1>5. \A l \in Links : MirrorInv(l)
  BY DEF Init, MirrorInv, Tracks, Balanced, Free
<1>6. QED
  BY <1>3, <1>4, <1>5 DEF ReadsInv

\* Between two writes the mirror of a link that is sound shows whom RoleLogic holds.
TracksRemote(l) ==
    Sound(l) /\ InService(l) /\ (\A w \in Workers : ~IsWriting(w, l)) => mirror[l] = users[l]

LEMMA MirrorAgrees ==
    ASSUME SyncInv, NEW l \in Links, MirrorInv(l)
    PROVE  TracksRemote(l)
<1> SUFFICES ASSUME Sound(l), InService(l), \A w \in Workers : ~IsWriting(w, l)
             PROVE  mirror[l] = users[l]
  BY DEF TracksRemote
<1>1. Tracks(l)
  BY DEF MirrorInv, Sound, InService, Original
<1>2. \A p \in Players : p \in mirror[l] <=> p \in users[l]
  BY <1>1, WriterTouches DEF Tracks
<1>3. mirror[l] \subseteq Players /\ users[l] \subseteq Players
  BY DEF SyncInv, TablesOK
<1>4. QED
  BY <1>2, <1>3

\* The mirror of one link: role_assignments shows what RoleLogic holds whenever
\* no write is between the two, however many workers there are and whatever
\* they do to other links, as long as no two write this one for the same player
\* or beside a config_sync.
THEOREM MirrorOfOneLink ==
    ASSUME NEW l \in Links
    PROVE  Spec /\ []NoClash(l) => []TracksRemote(l)
<1>1. Init => ReadsInv /\ MirrorInv(l)
  BY MirrorInit
<1>2. SyncInv /\ SyncInv' /\ ReadsInv /\ [Next]_vars => ReadsInv'
  BY ReadsStep
<1>3. SyncInv /\ SyncInv' /\ ReadsInv /\ NoClash(l) /\ NoClash(l)' /\ MirrorInv(l) /\ [Next]_vars
         => MirrorInv(l)'
  BY TracksStep
<1>4. SyncInv /\ MirrorInv(l) => TracksRemote(l)
  BY MirrorAgrees
<1>5. QED
  BY <1>1, <1>2, <1>3, <1>4, SyncInvariant, PTL DEF Spec

\* No link is written by two syncs that could undo each other.
NoClashes == \A l \in Links : NoClash(l)

MirrorsInv == ReadsInv /\ \A l \in Links : MirrorInv(l)

\* The same of all of them: an execution without such an overlap keeps every
\* mirror.  With two workers TLC finds executions with one, in which it fails.
THEOREM MirrorIsRight == Spec /\ []NoClashes => []MirrorTracksRemote
<1>1. Init => MirrorsInv
  BY MirrorInit DEF MirrorsInv
<1>2. SyncInv /\ SyncInv' /\ NoClashes /\ NoClashes' /\ MirrorsInv /\ [Next]_vars => MirrorsInv'
  <2> SUFFICES ASSUME SyncInv, SyncInv', NoClashes, NoClashes', MirrorsInv, [Next]_vars
               PROVE  MirrorsInv'
    OBVIOUS
  <2>1. ReadsInv'
    BY ReadsStep DEF MirrorsInv
  <2>2. ASSUME NEW l \in Links PROVE MirrorInv(l)'
    BY TracksStep DEF MirrorsInv, NoClashes
  <2>3. QED
    BY <2>1, <2>2 DEF MirrorsInv
<1>3. SyncInv /\ MirrorsInv => MirrorTracksRemote
  BY MirrorAgrees DEF MirrorsInv, TracksRemote, MirrorTracksRemote
<1>4. QED
  BY <1>1, <1>2, <1>3, SyncInvariant, PTL DEF Spec

\* One worker cannot overlap with itself: a single process that runs with
\* WORKER_CONCURRENCY = 1 keeps its mirrors right without any proviso.
THEOREM MirrorOfOneWorker ==
    ASSUME \A v, w \in Workers : v = w
    PROVE  Spec => []MirrorTracksRemote
<1>1. NoClashes
  BY DEF NoClashes, NoClash
<1>2. QED
  BY <1>1, MirrorIsRight, PTL
=============================================================================
