# osu! Player Role: formal models

TLA+ models of the plugin that links Discord members to their osu! accounts and
keeps the members of a Discord role, at RoleLogic, equal to the set that an
admin's rule selects. TLC checks the models on small instances; TLAPS proves their
safety, about the job queue, syncs, linking, saves, rules, uploads, refreshes, access
and the players page's setting, for every value of the constants.

`JobQueue.tla` and so on are the models, `MC*.tla` and `*.cfg` their instances,
`*Proofs.tla` the proofs. `PROJECT.json` lists the runs, maps every definition to
the lines it models, and lists the hazards and the departures below.

    tlc -config JobQueueSafe.cfg MCJobQueue.tla
    tlapm JobQueueProofs.tla

## 1. The system

One Rust process (several replicas are supported), Postgres, and four services
outside: RoleLogic (holds the roles), the Auth Gateway (who is in a guild), osu!
(facts of an account), Discord's iframe for the admin page.

| Part | State it keeps | Operations | Model |
|---|---|---|---|
| Job queue, `services/jobs.rs` | table `jobs` | enqueue, claim, complete, fail_retry, fail_dead, reap_stuck | `JobQueue` |
| Workers, `tasks/job_worker.rs` | `claimed`, the job under way, a shutdown guard | the loop: reap, claim, dispatch, record | `JobQueue` |
| Listener, `tasks/job_listener.rs` | a `Notify` | wakes waiting workers on NOTIFY | `JobQueue` |
| Reconcile and gc, `tasks/reconcile.rs` | none | config_sync for every link every 30 min; deletes old jobs and states | `RoleSync`, `RuleConfig`, `JobQueue`, `Linking` |
| Sync engine, `services/sync.rs` | `role_assignments`, mirror of RoleLogic | sync_for_player, sync_for_role_link, drain, orphan deletion | `RoleSync` |
| RoleLogic client, `services/rolelogic.rs` | none; RoleLogic keeps an upload session | add, remove, info; replace users by one PUT or by start, chunks, commit, cancel | `Upload`, `RoleSync` |
| Gateway client | none | guilds, members | `RoleSync` (external answers) |
| Linking, `routes/oauth.rs`, `routes/verify.rs` | `osu_oauth_states`, `osu_users`, `osu_stats` | start, callback, unlink | `Linking` |
| Refresh, `tasks/refresh.rs` | `next_refresh_at`, `refresh_failures` | batch of due users, fetch, upsert, reschedule | `RefreshSchedule`, `Linking` |
| Plugin endpoints, `routes/plugin.rs` | `role_links` | register, delete | `RuleConfig`, `RoleSync` |
| Admin page, `routes/admin.rs`, `role_config.html` | rule and version; per tab an edit buffer | load, edit, refresh, save | `RuleConfig` |
| Validator and evaluators | none | parse_rule_tree, evaluate, build_rule_where | `RuleEval` |
| Sessions, `rl_token.rs`, `auth.rs` | none: tokens are signed | verify an rl_token, mint and verify an iframe session, ask the gateway | `Access` |
| Players page, `routes/users.rs` | `guild_settings.view_permission` | list, set the permission | `ViewPermission` |
| CSRF; health, schema; configuration | none | see section 8 | not modelled |

How they interact: whatever changes a player (callback, unlink, refresh) commits
and then enqueues a `player_sync`; whatever changes a rule commits and then
enqueues a delayed `config_sync`; reconcile enqueues a `config_sync` for each link.
Workers of all replicas claim jobs with `FOR UPDATE SKIP LOCKED` and run the two
syncs, which read Postgres and the gateway, call RoleLogic, and then write the
mirror. There is no lock across a commit and its enqueue, nor across a call to
RoleLogic and the mirror.

What is hard here, and what each part must get right:

- *Queue.* Workers of several processes race, crash between claim and report,
  lose replies, and report by row id alone. Correct means: one worker per job at
  a time, at-least-once, a bounded number of attempts, nothing lost, nothing in
  the DLQ by accident, and every job ends.
- *Sync.* Two systems are written one after the other, and the program later
  trusts its own mirror. Correct means: the mirror tells the truth; no role is
  granted or taken without cause, above all not on a failed lookup; and the role
  converges to the rule.
- *Linking.* Transactions stay open across calls to osu! that take seconds,
  callbacks and refreshes overlap, and unique keys and foreign keys decide who
  wins. Correct means: one owner per account, paired with it by a flow and not by a
  race; a state good for one callback; a sync after each change; facts that catch up.
- *Configuration.* Optimistic locking between tabs, with an edit buffer that goes
  on changing, and a row that may be deleted and registered anew. Correct means:
  no silent overwrite, a repeated click refused, and a sync after each save. The
  control of the guild's setting has no version at all: it shows a choice before it
  is stored and takes it back on failure. Correct means: it tells the truth at last.
- *Upload.* Long lists go out in pieces, by requests that time out and arrive late.
  Correct means: RoleLogic holds one whole list, never a mixture, and no session is
  left open by carelessness.
- *Refresh.* Replicas select from one table without locks, and failures postpone.
  Correct means: the longest due first, and nobody starves.
- *Access.* Two tokens with lifetimes of their own, dated by two clocks. Correct
  means: no save long after the right to it has gone, and no refusal of a fresh token.
- *Evaluation.* The same rule is implemented twice, in Rust over `Option` and in
  SQL over NULL. Correct means: both always agree, and a datum that is missing or lost
  grants nothing but by what a rule expressly lets through.

## 2. The models and the code

### JobQueue (with JobLifecycle and JobQueueProofs)

The columns of `jobs` are functions over row ids: `status`, `attempts`,
`locked_by`; the timestamps appear only through the comparisons the statements
make with them: `due[j]` is `next_run_at <= now()`, `lock_old[j]` is `locked_at`
older than `STUCK_LOCK_SECS`. Each statement is one action. A worker has a program
counter for the points between its statements (`top`, `claim`, `idle`, `pause`,
`batch`, `run`, `report`, `down`), its batch with the attempts that the claim
returned (`held`), and the job it dispatches. `signal` is the shutdown message in
its channel: `IsTriggered` is `try_recv`, which takes the message out, so that the
answer is TRUE once.

What a dispatch does to the rest of the world is `RoleSync`; here it returns Ok,
Terminal or Retry. Faults, counted by `faults`: a crash, a claim or a report whose
statement fails (a claim may be applied all the same), a shutdown, and, if
`SlowBatches`, a lock that grows old while its batch is still being worked on.
That last one is a matter of timing: `locked_at` is set once for up to eight jobs,
and `STUCK_LOCK_SECS` was chosen for one sync.

`JobLifecycle` is the abstract specification, the lifecycle that
`migrations/004_jobs.sql` draws: what a row may go through, and that a job is
completed only if some dispatch has carried it out. `JobQueue` implements it with
`phase <- status`.

### RoleSync (with RoleSyncProofs)

For the links of one guild: `fact` (what a rule can tell apart of a player, or
`Unlinked`), `row` (token and rule), `mirror` (`role_assignments`), `queue`; at
RoleLogic `alive`, `born` (the generation of the token), `users`, `off`, `gate`; at
the gateway `member`. `task[w]` holds the locals of the sync that worker w runs,
and `at` its next await. A rule is the set of facts it accepts: `{}` is the
unconfigured rule, the full set is `grant_on_any_player`, which looks at a
different query than every other rule does. `sync_for_player` plans one action per
link and carries them out concurrently, each in two steps: the call, and then the
mirror. `sync_for_role_link` reads the members, asks RoleLogic for its limit,
selects, compares with the mirror (the short-circuit), puts, and replaces the
mirror in a transaction of two statements.

The queue is a set of subjects, the only data that jobs carry: `Start` leaves one in
it or takes it out, as there may be another row for it or not (`enqueue` inserts a row
each time), and any backlog may be there at the start. A failed request takes one from
`MaxErrors`; a lost enqueue, a lost reply and a crash take one from `MaxLost`; what
outside changes takes one from `MaxChanges`. `torn` remembers the links of which an
accepted change was never written to the mirror. `MaxGen` bounds how often a link is
created.

### Linking (with LinkingProofs)

`states`, `user`, `stats` are the three tables; `live` is what osu! would answer.
A process runs a callback, a refresh or an unlink. The transaction of callback and
refresh is modelled statement by statement at READ COMMITTED: what it has written
stays in `proc` (`cut`, `wrote`, `got`) until `Commit`. `WaitsFor` says when a
statement waits, for a row lock or for the fate of a unique key; a cycle of waits
fails one statement (`DeadlockVictim`); `Clashes` is the violation of UNIQUE
(osu_user_id), or of the key by which osu_stats refers to it. History variables:
`made` (whose flow a state belongs to), `brought` (which account's code came back with a
state of which identity),
`synced` (what the last player_sync saw), `cutoff` (who lost an account to another
identity and got no sync).

### RuleConfig (with RuleConfigProofs)

`row` is the link's row, `live` and `token` are RoleLogic's side, `applied` the
rule that the last config_sync evaluated. A tab holds what it believes is saved,
its buffer, the version it will send, an answer on its way (`snap`), and, while it
saves, the buffer `doSave` began with if the refresh has put another in its place
(`aside`). A save is UPDATE, SELECT of the version, INSERT of the job, reply.
`QuickReplies` assumes that nobody else writes the row between UPDATE and SELECT.
A link may be deleted and created again, with a new row whose versions start over;
`born` (history) tells which registration a row, or the version a tab holds, is of.

### Upload (with Replacement and UploadProofs)

`call` is where each call of `upload_users` is (the request it waits for, and how
many chunks are confirmed), `net` the requests that RoleLogic has not answered. A
request that has timed out stays in `net` and may reach RoleLogic later, in any
order with what was sent afterwards. RoleLogic is external, and modelled by what the
client's requests, error markers and tests tell: one session per link, which collects
chunks until the commit. Users of one chunk stand as one. `untidy` (history) holds
the calls that ended before RoleLogic confirmed an end of their session.

`Replacement` is what the callers rely on: the list is replaced as a whole, at most
once per call, and not at all by a call that failed before its list was on its way as
a whole; a call whose last answer is missing may still replace it, late.

### RefreshSchedule (with RefreshProofs)

`next` and `failed` are the columns; `batch[r]` is what the worker of replica r has
selected and not ended; the clock counts units of 2 hours. What a refresh writes to
the profile is Linking. Reading and raising `refresh_failures` is one step here, and
the members of a batch end in any order, whatever the concurrency. `over` (history) says
who was taken ahead of whom while he waited; an end whose update was lost
(`let _ = sqlx::query`), and a batch lost in a restart, do not count.

### Access (with SaveRequestProofs)

One visitor, links of several guilds. A token is a record of what it signs, and is in
`passes` or `sessions` for good once made. `manages` and the tokens of the links
(`signs`, at RoleLogic; `stored`, in the row) change at any time; `skew` is how far
RoleLogic's clock is ahead. A save comes with a session, or with a cookie about which
the gateway is asked a step earlier. `longest` (history) is the longest time between the
visitor's last moment as a manager and a save of his.

### ViewPermission (with ViewProofs)

`setting` is the stored value, `shown` and `pending` are the page's
`state.users.view_permission` and `supPending`, `post` the requests made so far, each
with the value to which a failure goes back; `snapshot` is a refresh whose answer is
on its way. Requests reach the server in any order.

### RuleEval (with SaveRequestProofs)

Operators only. `ParseRuleTree` (the validator), `Evaluate` (Rust) and
`BuildRuleWhere` / `Selected` (SQL) over one target of each kind the code tells
apart: a boolean, an integer of osu_users, a date, two integers of osu_stats (one
nullable), a nullable text, a text that is never NULL, a text array. SQL is
modelled in three-valued logic (NULL is `None`), with `LEFT JOIN` and COALESCE, as
the code writes it. How a string parses as a number or a boolean, and what LIKE and regular
expressions match, are constants of the module; the instance gives both evaluators the same.

## 3. What is checked

| Run | Instance | Shows |
|---|---|---|
| JobQueueSafe | 2 workers, 2 jobs, batches of 2, 2 attempts, 2 faults, no slow batch | ClaimIsFence, NoDoubleProcessing, AttemptBudget, ExactlyOnceWithoutFaults, DeadIsJustified; the queue implements JobLifecycle |
| JobQueueSlow | the same with slow batches, 1 attempt, 1 fault | AttemptsIdentifyClaim, AttemptBudget; every job ends (LifecycleSettles) |
| JobQueueShutdown | as JobQueueSafe, 1 fault | a worker claims after it has received the shutdown message (departure 1) |
| RoleSyncSerial | 1 worker, 1 link, 1 player, 2 facts (4 rules), limit 1, 2 changes, 1 error, 1 loss, 2 generations | MirrorTracksRemote, Converges, OrphansGo |
| RoleSyncSteady | 2 workers, 2 players, limit 1, any backlog, no change, 1 error, 1 loss | OnlyJustifiedChanges |
| RoleSyncRace | 2 workers, 1 player, 1 change, nothing fails | Converges fails (departure 2) |
| LinkingOwners | 2 processes, 2 identities, 2 accounts, 2 states, both identities linked before | OneOwner, PairsComeFromFlows, OneCallbackPerState; SyncFollows as long as nothing fails |
| LinkingFresh | 2 processes, 1 identity, 1 account, 2 modes, 1 change of facts, 1 fault | FactsCatchUp: the facts, and the owner's last player_sync |
| RuleConfigSaves | 2 tabs, 2 rules, 2 saves, or 1 after the link was created again, 1 fault, quick replies | SaveReachesSync, TabNotAhead, SecondClickRefused, NoSilentClobber |
| RuleConfigClobber | 2 tabs, 3 saves, nothing fails, no assumption on replies | NoSilentClobber fails (departure 3) |
| SaveRequest | rule: every target, operator and value of the instance, pairs and triples of conditions and groups, 41 players; access: 2 links, all lifetimes and skews 1, 5 ticks, 2 tokens of links, 1 pass, 1 session | EvaluatorsAgree, SaveIsStable (what is stored is well formed, too), FailsClosed; SavesAreByManagers, FreshPassOpens |
| Overlaps | uploads: 2 calls, lists of up to 3 chunks; refreshes: 2 replicas, 2 members, batches of 1, 3 ticks, 1 lost update or restart; pages: 2 pages, 2 values, 2 requests, 1 failure or loss | NoStraySession, CallsEnd, the upload implements Replacement; OvertakenOnce, DueIsTaken; PageTellsSetting |

SaveRequest and Overlaps explore models that share no state one at a time (`part`).
Some run of each stateful module checks its TypeOK, but for RefreshSchedule, Access and
ViewPermission, where it is proved.

Why the bounds are enough. The statements of the queue touch rows one by one or by
their status, so that two rows and two workers already show every order of claim,
reap and report on one row, with a second row for the batch that waits behind it;
one fault is needed to leave a row behind and the second attempt to meet it again,
and a second fault for a shutdown whose release fails.
In RoleSync the syncs of different links share nothing but the worker, so one link
is enough; two players are needed only where the limit makes them compete
(RoleSyncSteady), and two facts so that a rule and a player can disagree. Linking
needs two identities that want one account and one identity that wants two. A
silent overwrite needs two tabs and three saves. A rule of three conditions has
both a repeated AND and a repeated OR. Two uploads and three chunks (the first, one
in between, the last) show a session refused, forgotten and committed late under another
call; a batch of one makes two members compete; three ticks let a refreshed member be
due again. With lifetimes of 1 and five ticks each token expires within the run,
with every allowance used up. Two requests of one page, or of two, already arrive in
the wrong order and fail one after the other.

Where a run names an assumption, it is one the code does not enforce: no slow batch
(JobQueueSafe), one worker (RoleSyncSerial), quick replies
(RuleConfigSaves), lists of texts (SaveRequest). Section 5 says what happens
without it. CHECK_DEADLOCK is off where the model stops because a bound is used up
or nothing is left to do; the queue always has a step.

## 4. Fairness

- *JobQueue*: a worker that can step does (each HTTP request and each statement has
  a timeout); a dead process is restarted; clocks advance; a worker that passes the
  top of its loop for ever reaps every 120 s (strong, as the top is passed and left
  again). Nothing is assumed of NOTIFY: the poll is enough, which LifecycleSettles
  shows.
- *RoleSync*: a waiting job is claimed at last (claims go by id, oldest first); a
  claimed one runs; reconcile ticks; an owner confirms a held removal; RoleLogic
  registers a link that it has created. Changes, errors and losses are unfair, and
  bounded.
- *Linking*: as above; a user who stays due is picked (oldest `next_refresh_at`
  first). Pick needs strong fairness because the processes may be busy again and
  again.
- *Upload*: each request has a timeout (`rolelogic.rs:50`, and one for a chunk and a
  commit), so that a call that waits goes on. RoleLogic owes nothing.
- *RefreshSchedule*: a worker goes on with its loop, and each call of a refresh has a
  timeout. The clock, the members and the faults are free.
- *ViewPermission*: a request is answered or fails (the server has timeouts, and a
  connection ends), and whoever comes back to a page makes it refresh itself (focus,
  visibility, the dashboard's message). A page nobody looks at owes nothing.
- *RuleConfig* and *Access* state safety only.

## 5. Departures

Where the code does not do what a document or a comment says. The first three are
runs of their own; the others were met while choosing the assumptions above, and
come back when the named assumption is dropped.

1. *Shutdown.* `is_triggered()` (`tasks/shutdown.rs:44`) consumes the one message of
   its channel. A worker that asks between two jobs of its batch releases one job,
   goes on with the rest, and then claims again; the join at the end waits for it.
   `job_worker.rs:3-4` says workers stop accepting new work. (JobQueueShutdown)
2. *Two syncs of one role* call RoleLogic in one order and write the mirror in the
   other. In TLC's trace one config_sync still drains a role whose rule has just been
   saved: its empty PUT comes after that of the config_sync of the new rule, but it
   clears the mirror before the other fills it. A player_sync that adds somebody by an
   old rule, beside a config_sync, can do the same. From then on the mirror equals the
   computed set, and the short-circuit (`sync.rs:408`) skips RoleLogic for good. `OPERATIONS.md:99` calls replicas safe, `reconcile.rs:5-6`
   says nothing stays diverged. (RoleSyncRace)
3. *The version of a save* is read after the UPDATE by a statement of its own
   (`admin.rs:475`). A save of another tab in between hands this tab the other's
   version, and its next save overwrites a rule it never showed.
   `README.md:19` rules that out. (RuleConfigClobber)
4. *Slow batches.* A batch of up to eight jobs that takes longer than 45 minutes is
   reaped while it runs: two workers process one job, and the late report, which goes by
   id alone, ends or requeues a row of somebody else. With SlowBatches TRUE in
   JobQueueSafe.cfg NoDoubleProcessing, ClaimIsFence and LifecycleSpec fail.
5. *Lost replies.* When RoleLogic has applied a call whose reply or mirror write was
   lost, the mirror is wrong, and the short-circuit may keep it so. Without
   `l \notin torn` in `Sound`, MirrorTracksRemote and Converges fail.
6. *Registration over an old row* (`plugin.rs:42`) keeps the mirror of the link
   that was deleted, although the new link holds nobody. Without `born[l] = 1` in
   `Sound` Converges fails.
7. *A stale token.* `delete_orphan_role_link` deletes by guild and role: a sync that
   read the old token deletes a row that has just been given the new one.
8. *Errors of add_user and remove_user* are logged, and the job is completed
   (`sync.rs:256`), although `jobs.rs:4-5` says that transient failures retry;
   reconcile makes up for it (Converges, with MaxErrors = 1).
9. *Unlink against refresh.* `refresh_user_full` inserts the pair it selected before
   its calls to osu!; an unlink in between is undone. With a pair that is out of
   date the re-link guard (`oauth.rs:236`) even severs the account's new owner.
10. *Re-linking another account* (`verify.html:322` offers it) changes
    `osu_users.osu_user_id`, to which `osu_stats` refers without ON UPDATE: it is
    refused once statistics exist (`Clashes`).
11. *Versions start over* with each registration, so a tab from before a deletion may
    match the new row and overwrite it. Without `tab[t].born = row.born`
    NoSilentClobber fails (with MaxVersion = 4, so that each registration has a save).
12. *Edits during a save* become the saved baseline when the reply arrives
    (`role_config.html:602`), although they were not sent (`Saved`).
13. *A `not_in` list that holds no text* (numbers, booleans) passes the validator; SQL
    makes it TRUE even for a NULL column, the evaluator FALSE. With `Num(4)` in
    `Listed` of MCRuleEval EvaluatorsAgree fails.
14. *Times in the future* (a clock skew between osu! and this host): `num_days`
    truncates towards zero, FLOOR rounds down. The instance has ages from 0 on.
15. *Uploads that nobody ends.* When the start, the commit or the cancel is not
    answered the client cannot or does not close the session, and the link's next
    upload may find "Upload already in progress" until RoleLogic forgets it. Without
    `session.id \in untidy` NoStraySession fails. A commit or PUT that arrives late replaces a
    newer list (`ReplaceLate`), and the mirror does not know (as in 5).
16. *The read-only flag* is honoured by the role's own operations, not by the guild's
    setting: `require_guild_admin` does not look at it, while `rl_token.rs:46` says
    such a session MUST be treated as read-only. Access is about saves of a rule.
17. *The osu! quota* belongs to a client object (`osu.rs:225`), and each callback and
    each refresh builds its own, which sends about 6 requests of the 50 it may:
    `OPERATIONS.md:46` calls it a hard ceiling.
18. *The last choice need not win.* Requests of the setting's control carry no
    version: the one that arrives last is stored, and a page may show another value
    until its next refresh (PageTellsSetting holds thanks to that refresh only).
19. *Counters that were never fetched* are 0. A mode whose fetch fails is skipped
    (`oauth.rs:147`), and a player without its row of osu_stats is judged as one with
    zeros (`rule_sql.rs:94-104`, `sync.rs:52-62`). So a rule such as `play_count < 5`
    grants to him until a refresh succeeds, whatever he has played; `rule_sql.rs:12-14`
    calls the NULL-handling fail-closed and the row that of a player who never played.
    FailsClosed says what holds: NULLs fail closed, an absent row counts as zeros, and
    losing data gains nobody the role unless a condition is a negation or one that a
    counter of 0 fulfils (`Lenient`).
20. *Whose browser.* The callback knows the identity from the state alone
    (`oauth.rs:88-108`), without a cookie or session: whoever follows an
    authorize link pairs his account with the identity that the state was made for. So
    PairsComeFromFlows ties an account to the flow whose state came back with its code,
    and not to a person; `Callback` lets any account come back with any state.

## 6. What is proved

For any workers, rows, links, players, rules, tabs, calls, members and so on, and any
bound:

| Module | Theorem | Says |
|---|---|---|
| JobQueueProofs | TypeCorrect | Spec => []TypeOK |
| | ClaimsAreFenced | without slow batches, Spec => []ClaimIsFence |
| | JobsRunAlone | without slow batches, Spec => []NoDoubleProcessing |
| | QueueKeepsLifecycle | without slow batches, Spec => JobLifecycle!Spec |
| | ClaimsAreTellable | Spec => []AttemptsIdentifyClaim |
| | AttemptsStayInBudget | Spec => []AttemptBudget |
| | DlqIsJustified | Spec => []DeadIsJustified |
| | ServedOnce | without slow batches, Spec => []ExactlyOnceWithoutFaults |
| RoleSyncProofs | SyncTypeCorrect | Spec => []TypeOK |
| | ChangesAreJustified | Spec => OnlyJustifiedChanges |
| | MirrorOfOneLink | for a link l: Spec /\ []NoClash(l) => []TracksRemote(l) |
| | MirrorIsRight | Spec /\ []NoClashes => []MirrorTracksRemote |
| | MirrorOfOneWorker | with one worker, Spec => []MirrorTracksRemote |
| LinkingProofs | LinkTypeCorrect | Spec => []TypeOK |
| | StateTakenOnce | Spec => []OneCallbackPerState |
| | NoPairIsMadeUp | Spec => []PairsComeFromFlows |
| | AccountHasOneOwner | Spec => []OneOwner |
| | SyncAlwaysFollows | Spec => []SyncFollows |
| UploadProofs | TypeCorrect | Spec => []TypeOK |
| | UploadsKeepOrder | Spec => [](CallSound, RequestSound and SessionSound, explained below) |
| | UploadReplaces | Spec => ReplacesAtomically, that is, Replacement's Spec |
| | SessionsAreTended | Spec => []NoStraySession |
| RuleConfigProofs | RuleTypeCorrect | Spec => []TypeOK |
| | NoTabIsAhead | Spec => []TabNotAhead |
| | RepeatIsRefused | Spec => []SecondClickRefused |
| | NobodyIsClobbered | with quick replies, Spec => NoSilentClobber |
| | EverySaveReachesSync | Spec => []SaveReachesSync |
| RefreshProofs | RefreshTypeCorrect | RefreshSpec => []RefreshTypeOK |
| | NobodyIsOvertakenTwice | RefreshSpec => OvertakenOnce |
| SaveRequestProofs | AccessTypeCorrect | AccessSpec => []AccessTypeOK |
| | NoSaveLongAfterDemotion | AccessSpec => []SavesAreByManagers |
| | PassLivesItsTime | AccessSpec => []FreshPassOpens |
| | EvaluatorsAlwaysAgree | both evaluators agree on every well-formed rule and recorded player |
| | MissingDataGrantNothing | neither grants to a player with a NULL, or no group, where every group asks for one |
| | LostDataGrantNothing | nobody gains a role by the loss of a datum or a row, but for lenient conditions |
| | NoRowIsZeros | a player without statistics is judged like one whose row has no rank and zeros |
| | StoredIsAcceptedAgain | what the validator made of any body it accepts as it is |
| | StoredIsWellFormed | and it is well-formed |
| | StoredRulesAreStable | Spec => []SaveIsStable |
| | RulesMeanOneThing | Spec => []EvaluatorsAgree |
| | RulesFailClosed | Spec => []FailsClosed |
| ViewProofs | ViewTypeCorrect | ViewSpec => []ViewTypeOK |
| | FlagIsCleared | ViewSpec => []FlagHasRequest |

*JobQueue.* ClaimIsFence (whoever holds j in its batch is in the table as the
owner of an in_progress row, at the attempt its claim returned, with a lock too
young for the reaper) is inductive together with TypeOK and `Owning` (the job that a
worker dispatches or reports is still in its batch): a claim takes only pending
rows, which nobody holds; a report or a release changes only a row its worker
holds; the reaper takes only old locks; a lock grows old only when nobody holds the
row, and here `~SlowBatches` is used. Two workers that dispatch one job would both
be its one owner. For the lifecycle each step maps to a step of the abstract
specification or to a stutter: a claim to Start of the whole batch, the reaper to
Return of all stuck rows, a report to Finish, Bury or Return, a returned Ok to
Serve; Finish needs that an outcome Ok has been served (`OkWasServed`).

AttemptBudget is about a number, and what keeps it is a measure: the attempts of a job,
the shutdown messages that may still release it, the attempts below the maximum at
which some worker may still put it back (`Retries`), and one if it is in the queue or
the reaper will put it there (`Place`) never exceed MaxAttempts + faults (`Budgeted`).
A claim moves the one of its place to the attempts; a report that retries gives up one
of the Retries for a place; a release spends the message of a shutdown; and whatever
else puts a row back, a crash, a claim or report that fails, a lock that grows old, is a
fault. That two workers never hold a job at the same attempt (AttemptsIdentifyClaim) is
why a late report cannot use a retry twice.

The history theorems. AttemptsIdentifyClaim is inductive by itself: only a claim gives
a job to a worker, and it counts `attempts` up beyond all that anybody holds.
DeadIsJustified needs `BurialIsDue` (whoever is about to bury a job has seen it fail
for good), since the failure and its record are two steps. ExactlyOnceWithoutFaults
needs `ServedStays` (while there is no fault, a served job is completed, deleted, or
has a worker about to record its success) together with the owner invariant, which
says that nobody else can be dispatching or releasing that job meanwhile.

*RoleSync.* The types come with what each program point of a sync knows of its locals
(`SyncInv`). For OnlyJustifiedChanges the invariant `QuietInv` says that, as long as
`changes = 0`, every link is registered and in service (`Calm`), and whatever a sync has
read is still so: its rows, members and linked accounts are the tables' and the gateway's,
its plan adds only who qualifies and removes only who does not, and what it is about to
put is the computed set (`Informed`). What it does not say is anything about `mirror`,
`users` or the queue, on which crashes, errors and the other syncs work: that is why the
theorem holds for any number of workers. MirrorTracksRemote needs two things.
`ReadsInv`: no token comes from the future, so that a sync which RoleLogic
does not know any more has a link that was deleted, or registered anew, and the row of an
original link is never removed. `MirrorInv(l)`: mirror and RoleLogic agree on every player
whom no worker is about to write to the mirror (`Touches`), and each write that is under way
makes them agree (`Balanced`: what a worker is about to insert or delete is what RoleLogic
holds). Without a proviso it is not inductive, and with two workers TLC finds executions in
which MirrorTracksRemote fails: a player_sync's insert falls between the put of a
config_sync and its transaction (departure 2). `NoClash(l)` names the overlaps that do it:
a config_sync that is between its put and its transaction while another sync is about
to write the same mirror, and two syncs of one player that are about to. Everything else
may overlap: syncs of several players write one link at once, config_syncs of several links
run side by side, and a sync may read in the midst of another's writes. A clash
costs the mirror of its own link only (MirrorOfOneLink).

*Linking.* A state leaves the table with the callback that takes it, and a process knows
of a state only what `made` says (`LinkInv`); who is past the exchange of the code is in
`brought` (`FlowInv`), so that a transaction writes only pairs that came from a flow. That
a code and a state belong to one person is outside (departure 20). OneOwner
needs READ COMMITTED with its locks: no two transactions hold one row, or have written
the same account (`Apart`); what a transaction has deleted were owners of its account, and
once it has written its own row it has deleted every other owner, and the account which
that row leaves has no statistics (`Holds`); together with `OneHolder` and `StatsOwned`
this is `ExclusiveInv`. It does not matter who is chosen as a deadlock's victim. SyncFollows,
which speaks of executions without a fault so far, is inductive with these: what commits changes the view of the process' own identity, which
goes on to `enqueue`, and of those it cut, which are in `cutoff`.

*RuleEval.* A condition on a target of each kind is evaluated alike, operator by operator:
SQL's NULL is TRUE in neither, but for the negations that the code writes out
(`IS DISTINCT FROM`, `IS NOT NULL AND`). AND over a set of truth values is TRUE if all
are, OR if one is (`SqlAndIsTrue`, `SqlOrIsTrue`), hence groups and rules agree. The theorem
says what it needs: a well-formed tree (targets with operators they know; a list for `in`
and `not_in` holds some text: departure 13) and a row whose last visit is past
(departure 14). The validator stores no others: each normalizer leaves what it has accepted
as it is (`BoolIsNormal`, `IntIsNormal`, `TextIsNormal`, `ListIsNormal`), hence so do
conditions, groups and rules (StoredIsAcceptedAgain), for lists of any length. That losing
a datum gains nothing is shown condition by condition (`LossGainsNothing`): a NULL fails,
fewer groups match less, and a lower counter passes no lower bound that a higher one
misses; what else a 0 may pass is `Lenient`. What the
filter of a list keeps (`Kept`, a recursive function) is found by induction over the list,
with the least number that is not in a set (`LeastNumber`, `UpTo`), since the provers
cannot use the induction theorems that take an operator. In a run of requests the rule is
unconfigured or what the posted body was parsed to (`StoredInv`); so EvaluatorsAgree,
FailsClosed and SaveIsStable hold in every state without a proviso.

*Upload.* The invariant: a list's length selects its transport and chunks are counted in
order (`CallSound`); a request that is not awaited any more is one whose call has given it up,
so that a list as a whole is on its way once at most (`RequestSound`); and what RoleLogic
has staged is what the call has counted, as long as the call can still commit
(`SessionSound`). Hence a commit installs a whole list, of a call that has not been taken
before, and a call that failed before its commit or PUT cannot replace anything, which is
why it counts as failed for good.

*RuleConfig.* Versions of one registration only grow, and each tab, answer and snapshot holds
one that its row has reached (`SeenBy`), which gives TabNotAhead; a save under way has
raised the row beyond the tab's version (`Ahead`), so that it cannot match again until the
reply or a refresh brings a newer one, which gives SecondClickRefused. A version stands
for the rule that the tab shows or wrote (`Shows`); this last part needs quick replies, since
otherwise an answer may carry the version of another tab's rule. SaveReachesSync is
inductive with the types, and with the fact that without a fault every registration
begins with nothing applied.

*RefreshSchedule.* Whoever was taken ahead of a waiting member, and has ended since, is due
later than he, or has no row (`BehindMe`): each end that is written dates the member after
now. Since a batch takes the longest due, nobody can be taken twice ahead of him.

*Access.* A pass is dated when the visitor managed the link, or is read-only; a
session is made while its pass is accepted, and a writable one only of a writable pass
(`Tethered`). The sum of the four terms bounds the time from there to the end of the session. FreshPassOpens
uses that the clocks differ by no more than the allowance (ClockSkewAssumption).

*ViewPermission.* FlagHasRequest is the safety behind PageTellsSetting, inductive with the
types: a page that ignores refreshes waits for a request of its own, because whatever
ends a request for its page clears the flag, and a reload clears it too.

The assumptions are the named ASSUMEs of the modules (sentinels are no values, bounds
are naturals, clocks differ by at most the allowance, what texts read as is of its type,
the literals of the code are strings). TLC evaluates them in each run.

Model-checked only: everything that needs fairness (LifecycleSettles, Converges,
OrphansGo, FactsCatchUp, CallsEnd, DueIsTaken, PageTellsSetting), which is out of the
prover's reach. Every safety invariant that a passing run checks is proved.

## 7. Plan

Done: JobQueue and JobLifecycle first, since every effect passes through the queue;
then RoleSync, Linking, RuleConfig and RuleEval; then Upload (against Replacement),
RefreshSchedule, Access and ViewPermission; the proofs about the queue, uploads, saves,
refreshes and access; the proofs about linking, the syncs and the two evaluators, and the
budget of attempts.

Then the rules that are stored, and the mirrors under any number of workers.

Left out: *a composition* of JobQueue and RoleSync. RoleSync's `queue` is the set of what
waiting rows ask for; that a row is started by one worker, and then served, given back
or buried, is JobLifecycle, which JobQueue implements.

## 8. What is not modelled, and why

- Signatures, the cookie's own life (the gateway issues it) and the origin check:
  functions of one request, without shared state.
- The listing of the players page and its gate, health, schema and landing routes:
  they change nothing.
- Configuration, pool, error mapping and headers: no behaviour of their own.
- The rate limiter of the osu! client: it never acts (departure 17); osu! answers or
  fails.
- Presets, catalogues, rendering and the preview's count on the role's page: they
  read one state and show it. The joins at the end of the process (`main.rs:283`) wait for
  what JobQueueShutdown shows.
- The dialects of LIKE and of regular expressions in Postgres and in Rust: `Within`
  and `Matches` are the same relation for both evaluators.
- Times: how long a backoff or a delay is. Whatever waits becomes due at some time,
  and the order in which things become due is free.
