------------------------------ MODULE Linking ------------------------------
(***************************************************************************)
(* Which osu! account belongs to which Discord identity, and how fresh its *)
(* cached facts are: the PKCE states and the OAuth callback                *)
(* (src/routes/oauth.rs), unlinking (src/routes/verify.rs) and the refresh *)
(* worker (src/tasks/refresh.rs), over osu_users and osu_stats.            *)
(*                                                                         *)
(* The callback and the refresh write in a transaction that stays open     *)
(* while they call the osu! API.  It is modelled statement by statement    *)
(* at READ COMMITTED: what it has written is kept in the process and seen  *)
(* by nobody before Commit, a statement waits for the row locks and the    *)
(* unknown fate of unique keys of the others, and a cycle of waits costs   *)
(* one of them its transaction.                                            *)
(*                                                                         *)
(* The osu! API is external: live[o] is what it answers about account o.   *)
(***************************************************************************)
EXTENDS Integers, FiniteSets

CONSTANTS
    Discords,   \* discord ids
    Accounts,   \* osu! user ids
    Modes,      \* game modes with statistics of their own
    Tokens,     \* values of `state`, each made once (Uuid::new_v4)
    Procs,      \* request handlers and refreshes that run at the same time
    Earlier,    \* identities that are linked to begin with
    MaxFact,    \* how often the facts of an account may change
    MaxFaults,  \* failed calls, crashes and failed enqueues
    None        \* no row, no value

ASSUME EarlierAssumption   == Earlier \subseteq Discords
ASSUME MaxFactAssumption   == MaxFact \in Nat
ASSUME MaxFaultsAssumption == MaxFaults \in Nat

VARIABLES
    states,   \* osu_oauth_states: the discord id a live state was made for
    user,     \* osu_users, by discord id
    stats,    \* osu_stats, by account and mode
    queue,    \* player_sync jobs waiting
    live,     \* the facts of each account, at osu!
    proc,     \* what each handler or refresh is at
    \* what happened so far
    made,     \* whose flow each token was made for
    brought,  \* <<d, o>>: a state made for d came back with a code of account o
    synced,   \* what the last player_sync of d saw
    cutoff,   \* d lost its account to another identity since that sync
    faults

tables  == <<states, user, stats, queue>>
history == <<made, brought, synced, cutoff>>
vars    == <<tables, live, proc, history, faults>>

Fact == 0..MaxFact
User == [osu : Accounts, profile : Fact, due : BOOLEAN]

ASSUME NoneAssumption == None \notin Discords \cup Accounts \cup Nat \cup User

Kind == {"callback", "refresh", "unlink"}
At   == {"idle", "exchange", "fetch", "cut", "upsert", "token", "modes", "enqueue",
         "ok", "failed"}

\* In a transaction: cut, the rows it deleted; wrote, that it holds the row of
\* discord; got, the statistics it wrote; todo, the modes it still asks for.
Proc == [at : At, kind : Kind, discord : Discords \cup {None}, osu : Accounts \cup {None},
         token : Tokens \cup {None}, seen : Fact, cut : SUBSET Discords, wrote : BOOLEAN,
         todo : SUBSET Modes, got : [Modes -> Fact \cup {None}]]
Idle == [at |-> "idle", kind |-> "callback", discord |-> None, osu |-> None,
         token |-> None, seen |-> 0, cut |-> {}, wrote |-> FALSE,
         todo |-> {}, got |-> [m \in Modes |-> None]]

\* What the evaluation of d's rules reads.
View(d) == IF user[d] = None THEN None
           ELSE <<user[d].osu, user[d].profile, stats[user[d].osu]>>

TypeOK ==
    /\ states \in [Tokens -> Discords \cup {None}]
    /\ user \in [Discords -> User \cup {None}]
    /\ stats \in [Accounts -> [Modes -> Fact \cup {None}]]
    /\ queue \subseteq Discords
    /\ live \in [Accounts -> Fact]
    /\ proc \in [Procs -> Proc]
    /\ made \in [Tokens -> Discords \cup {None}]
    /\ brought \subseteq Discords \X Accounts
    /\ synced \in [Discords -> {None} \cup (Accounts \X Fact \X [Modes -> Fact \cup {None}])]
    /\ cutoff \subseteq Discords
    /\ faults \in 0..MaxFaults

\* An earlier history has left the identities of Earlier linked, and is over.
Owned == {f \in [Discords -> Accounts \cup {None}] :
             /\ {d \in Discords : f[d] # None} = Earlier
             /\ \A d, e \in Earlier : d # e => f[d] # f[e]}

Init ==
    /\ states = [t \in Tokens |-> None]
    /\ \E f \in Owned :
          /\ user = [d \in Discords |->
                        IF f[d] = None THEN None
                        ELSE [osu |-> f[d], profile |-> 0, due |-> FALSE]]
          /\ stats = [o \in Accounts |-> [m \in Modes |->
                        IF \E d \in Earlier : f[d] = o THEN 0 ELSE None]]
          /\ brought = {pair \in Discords \X Accounts : f[pair[1]] = pair[2]}
    /\ synced = [d \in Discords |-> View(d)]
    /\ queue = {}
    /\ live = [o \in Accounts |-> 0]
    /\ proc = [p \in Procs |-> Idle]
    /\ made = [t \in Tokens |-> None]
    /\ cutoff = {}
    /\ faults = 0

Fault == faults < MaxFaults /\ faults' = faults + 1

Goto(p, at) == proc' = [proc EXCEPT ![p].at = at]
End(p)      == proc' = [proc EXCEPT ![p] = Idle]

\* An error leaves the transaction, if one is open, without a trace.  The
\* refresh worker then notes the failure.
Fail(p) == proc' = [proc EXCEPT ![p] =
                       IF proc[p].kind = "refresh"
                          THEN [Idle EXCEPT !.at = "failed", !.kind = "refresh",
                                            !.discord = proc[p].discord]
                          ELSE Idle]

-----------------------------------------------------------------------------
(* Row locks and unique keys                                               *)

Locks(q) == proc[q].cut \cup (IF proc[q].wrote THEN {proc[q].discord} ELSE {})

\* Values of the unique osu_user_id whose fate q's transaction will decide.
Keys(q) == (IF proc[q].wrote THEN {proc[q].osu} ELSE {})
           \cup {user[e].osu : e \in {e \in Locks(q) : user[e] # None}}

Locked(d) == \E q \in Procs : d \in Locks(q)

Owners(o) == {e \in Discords : user[e] # None /\ user[e].osu = o}

WaitsFor(p, q) ==
    /\ p # q
    /\ \/ /\ proc[p].at = "cut"
          /\ Locks(q) \cap (Owners(proc[p].osu) \ {proc[p].discord}) # {}
       \/ /\ proc[p].at = "upsert"
          /\ proc[p].discord \in Locks(q) \/ proc[p].osu \in Keys(q)

Waits(p) == \E q \in Procs : WaitsFor(p, q)

-----------------------------------------------------------------------------
(* The link flow                                                           *)

\* POST /verify/osu: insert_state.
StartFlow(d, t) ==
    /\ made[t] = None
    /\ made' = [made EXCEPT ![t] = d]
    /\ states' = [states EXCEPT ![t] = d]
    /\ UNCHANGED <<user, stats, queue, live, proc, brought, synced, cutoff, faults>>

\* Ten minutes later: no longer matched, and collected by gc.
Expire(t) ==
    /\ states[t] # None
    /\ states' = [states EXCEPT ![t] = None]
    /\ UNCHANGED <<user, stats, queue, live, proc, history, faults>>

\* Mutant: SELECT where the code has DELETE ... RETURNING.
ConsumeStateNot(t) == UNCHANGED states

\* osu! sends a browser back: DELETE ... RETURNING takes the state row.
ConsumeState(t) == states' = [states EXCEPT ![t] = None]

\* Mutant: the identity is that of some state, not of the one that came back.
CallbackOfAnyState(p, t, o) ==
    /\ proc[p].at = "idle"
    /\ states[t] # None
    /\ ConsumeState(t)
    /\ \E u \in Tokens :
          /\ states[u] # None
          /\ proc' = [proc EXCEPT ![p] = [Idle EXCEPT !.at = "exchange", !.discord = states[u],
                                                      !.osu = o, !.token = t]]
    /\ UNCHANGED <<user, stats, queue, live, history, faults>>

\* The state alone names the identity ("auth-by-state"): whoever brings it may
\* have authorised as any account o.
Callback(p, t, o) ==
    /\ proc[p].at = "idle"
    /\ states[t] # None
    /\ ConsumeState(t)
    /\ proc' = [proc EXCEPT ![p] = [Idle EXCEPT !.at = "exchange", !.discord = states[t],
                                                !.osu = o, !.token = t]]
    /\ UNCHANGED <<user, stats, queue, live, history, faults>>

\* exchange_code and get_me; a restricted account is refused like an error.
Exchange(p) ==
    /\ proc[p].at = "exchange"
    /\ \/ /\ proc' = [proc EXCEPT ![p].at = "cut", ![p].seen = live[proc[p].osu]]
          /\ brought' = brought \cup {<<made[proc[p].token], proc[p].osu>>}
          /\ UNCHANGED faults
       \/ Fail(p) /\ Fault /\ UNCHANGED brought
    /\ UNCHANGED <<tables, live, made, synced, cutoff>>

\* upsert_user_profile, first statement: sever whoever else has the account.
Cut(p) ==
    /\ proc[p].at = "cut"
    /\ ~Waits(p)
    /\ proc' = [proc EXCEPT ![p].cut = Owners(proc[p].osu) \ {proc[p].discord},
                            ![p].at = "upsert"]
    /\ UNCHANGED <<tables, live, history, faults>>

\* Mutant: osu_user_id is not UNIQUE.
ClashesStatsOnly(p) ==
    LET d == proc[p].discord IN
    /\ user[d] # None
    /\ user[d].osu # proc[p].osu
    /\ \E m \in Modes : stats[user[d].osu][m] # None

\* Second statement.  ON CONFLICT names discord_id only, so an owner that
\* appeared since the first statement is a unique violation; and osu_stats
\* refers to osu_user_id with no ON UPDATE, so a row with statistics cannot
\* change its account.
Clashes(p) ==
    LET d == proc[p].discord
        o == proc[p].osu
    IN  \/ ~(Owners(o) \subseteq proc[p].cut \cup {d})
        \/ /\ user[d] # None
           /\ user[d].osu # o
           /\ \E m \in Modes : stats[user[d].osu][m] # None

Upsert(p) ==
    /\ proc[p].at = "upsert"
    /\ ~Waits(p)
    /\ IF Clashes(p)
          THEN Fail(p)
          ELSE proc' = [proc EXCEPT
                           ![p].wrote = TRUE,
                           ![p].at = IF proc[p].kind = "callback" THEN "token" ELSE "modes",
                           ![p].todo = Modes]
    /\ UNCHANGED <<tables, live, history, faults>>

\* Postgres ends a deadlock by failing a statement.
DeadlockVictim(p) ==
    /\ \E q \in Procs : WaitsFor(p, q) /\ WaitsFor(q, p)
    /\ Fail(p)
    /\ UNCHANGED <<tables, live, history, faults>>

\* client_credentials_token, inside the callback's transaction.
AppToken(p) ==
    /\ proc[p].at = "token"
    /\ \/ Goto(p, "modes") /\ UNCHANGED faults
       \/ Fail(p) /\ Fault
    /\ UNCHANGED <<tables, live, history>>

\* get_user and upsert_stats for one mode; a failed fetch is logged and the
\* mode is left as it is.
FetchMode(p, m) ==
    /\ proc[p].at = "modes"
    /\ m \in proc[p].todo
    /\ \/ /\ proc' = [proc EXCEPT ![p].todo = @ \ {m}, ![p].got[m] = live[proc[p].osu]]
          /\ UNCHANGED faults
       \/ proc' = [proc EXCEPT ![p].todo = @ \ {m}] /\ Fault
    /\ UNCHANGED <<tables, live, history>>

\* The statistics of a severed owner went with its row (CASCADE).
StatsAfter(p) == [m \in Modes |->
    IF proc[p].got[m] # None THEN proc[p].got[m]
    ELSE IF proc[p].cut # {} THEN None
    ELSE stats[proc[p].osu][m]]

Commit(p) ==
    LET d == proc[p].discord
        o == proc[p].osu
    IN
    /\ proc[p].at = "modes"
    /\ proc[p].todo = {}
    /\ user' = [e \in Discords |->
                   IF e = d THEN [osu |-> o, profile |-> proc[p].seen, due |-> FALSE]
                   ELSE IF e \in proc[p].cut THEN None ELSE user[e]]
    /\ stats' = [stats EXCEPT ![o] = StatsAfter(p)]
    /\ proc' = [proc EXCEPT ![p].at = "enqueue", ![p].cut = {}, ![p].wrote = FALSE]
    /\ cutoff' = (cutoff \cup proc[p].cut) \ {d}
    /\ UNCHANGED <<states, queue, live, made, brought, synced, faults>>

\* Mutant: a refresh asks for no sync.
EnqueueForLinksOnly(p) ==
    /\ proc[p].at = "enqueue"
    /\ \/ /\ IF proc[p].kind = "refresh"
                THEN Goto(p, "ok") /\ UNCHANGED queue
                ELSE End(p) /\ queue' = queue \cup {proc[p].discord}
          /\ UNCHANGED faults
       \/ Fail(p) /\ Fault /\ UNCHANGED queue
    /\ UNCHANGED <<states, user, stats, live, history>>

\* enqueue_player_sync, after the commit and not part of it.
Enqueue(p) ==
    /\ proc[p].at = "enqueue"
    /\ \/ /\ queue' = queue \cup {proc[p].discord}
          /\ IF proc[p].kind = "refresh" THEN Goto(p, "ok") ELSE End(p)
          /\ UNCHANGED faults
       \/ Fail(p) /\ Fault /\ UNCHANGED queue
    /\ UNCHANGED <<states, user, stats, live, history>>

-----------------------------------------------------------------------------
(* POST /verify/unlink                                                     *)

\* Mutants: the account is blanked and the row stays; nobody asks for a sync.
UnlinkKeepsRow(p, d) ==
    /\ proc[p].at = "idle"
    /\ user[d] # None
    /\ ~Locked(d)
    /\ user' = [user EXCEPT ![d].osu = None]
    /\ stats' = [stats EXCEPT ![user[d].osu] = [m \in Modes |-> None]]
    /\ proc' = [proc EXCEPT ![p] = [Idle EXCEPT !.at = "enqueue", !.kind = "unlink",
                                                !.discord = d]]
    /\ cutoff' = cutoff \ {d}
    /\ UNCHANGED <<states, queue, live, made, brought, synced, faults>>

UnlinkSilently(p, d) ==
    /\ proc[p].at = "idle"
    /\ user[d] # None
    /\ ~Locked(d)
    /\ user' = [user EXCEPT ![d] = None]
    /\ stats' = [stats EXCEPT ![user[d].osu] = [m \in Modes |-> None]]
    /\ cutoff' = cutoff \ {d}
    /\ UNCHANGED <<states, queue, live, proc, made, brought, synced, faults>>

Unlink(p, d) ==
    /\ proc[p].at = "idle"
    /\ user[d] # None
    /\ ~Locked(d)
    /\ user' = [user EXCEPT ![d] = None]
    /\ stats' = [stats EXCEPT ![user[d].osu] = [m \in Modes |-> None]]
    /\ proc' = [proc EXCEPT ![p] = [Idle EXCEPT !.at = "enqueue", !.kind = "unlink",
                                                !.discord = d]]
    /\ cutoff' = cutoff \ {d}
    /\ UNCHANGED <<states, queue, live, made, brought, synced, faults>>

-----------------------------------------------------------------------------
(* The refresh worker                                                      *)

\* One row of the batch of due users.  Between this SELECT and the writes
\* below nothing is locked.
Pick(p, d) ==
    /\ proc[p].at = "idle"
    /\ user[d] # None
    /\ user[d].due
    /\ proc' = [proc EXCEPT ![p] = [Idle EXCEPT !.at = "fetch", !.kind = "refresh",
                                                !.discord = d, !.osu = user[d].osu]]
    /\ UNCHANGED <<tables, live, history, faults>>

FetchProfile(p) ==
    /\ proc[p].at = "fetch"
    /\ \/ /\ proc' = [proc EXCEPT ![p].at = "cut", ![p].seen = live[proc[p].osu]]
          /\ UNCHANGED faults
       \/ Fail(p) /\ Fault
    /\ UNCHANGED <<tables, live, history>>

\* In six hours, or after the backoff: UPDATE ... WHERE discord_id, whoever
\* has that row by now.
Reschedule(p) ==
    LET d == proc[p].discord IN
    /\ proc[p].at \in {"ok", "failed"}
    /\ ~Locked(d)
    /\ user' = IF user[d] = None THEN user ELSE [user EXCEPT ![d].due = FALSE]
    /\ End(p)
    /\ UNCHANGED <<states, stats, queue, live, history, faults>>

\* next_refresh_at has come.
FallDue(d) ==
    /\ user[d] # None
    /\ ~user[d].due
    /\ ~Locked(d)
    /\ user' = [user EXCEPT ![d].due = TRUE]
    /\ UNCHANGED <<states, stats, queue, live, proc, history, faults>>

-----------------------------------------------------------------------------
\* A player_sync runs (RoleSync): it evaluates what is committed by then.
PlayerSync(d) ==
    /\ d \in queue
    /\ queue' = queue \ {d}
    /\ synced' = [synced EXCEPT ![d] = View(d)]
    /\ cutoff' = cutoff \ {d}
    /\ UNCHANGED <<states, user, stats, live, proc, made, brought, faults>>

Drift(o) ==
    /\ live[o] < MaxFact
    /\ live' = [live EXCEPT ![o] = @ + 1]
    /\ UNCHANGED <<tables, proc, history, faults>>

Crash(p) ==
    /\ proc[p].at # "idle"
    /\ Fault
    /\ End(p)
    /\ UNCHANGED <<tables, live, history>>

Run(p) ==
    \/ Exchange(p) \/ FetchProfile(p) \/ Cut(p) \/ Upsert(p) \/ DeadlockVictim(p)
    \/ AppToken(p) \/ Commit(p) \/ Enqueue(p) \/ Reschedule(p)
    \/ \E m \in Modes : FetchMode(p, m)

Next ==
    \/ \E p \in Procs :
          \/ Run(p) \/ Crash(p)
          \/ \E t \in Tokens, o \in Accounts : Callback(p, t, o)
          \/ \E d \in Discords : Unlink(p, d) \/ Pick(p, d)
    \/ \E d \in Discords : \/ \E t \in Tokens : StartFlow(d, t)
                           \/ FallDue(d) \/ PlayerSync(d)
    \/ \E t \in Tokens : Expire(t)
    \/ \E o \in Accounts : Drift(o)

Spec == Init /\ [][Next]_vars

(***************************************************************************)
(* A process that runs goes on (its HTTP calls time out, Postgres breaks   *)
(* deadlocks); time passes; the refresh worker ticks every minute and      *)
(* takes the user who is due longest, so that nobody who stays due is      *)
(* passed over for ever; workers run the player_syncs.                     *)
(***************************************************************************)
Fairness ==
    /\ \A p \in Procs : SF_vars(Run(p))
    /\ \A d \in Discords : /\ SF_vars(FallDue(d))
                           /\ SF_vars(\E p \in Procs : Pick(p, d))
                           /\ WF_vars(PlayerSync(d))

FairSpec == Spec /\ Fairness

-----------------------------------------------------------------------------
(* Properties                                                              *)

\* "An osu! account can only be tied to one Discord account at a time", and
\* statistics exist only of an account that somebody has.
OneOwner == \A o \in Accounts :
    /\ Cardinality(Owners(o)) <= 1
    /\ Owners(o) = {} => \A m \in Modes : stats[o][m] = None

\* An identity and an account are paired only by a state of the one that came
\* back with a code of the other, whatever severs, races and refreshes came
\* since: no two flows are mixed up, and no refresh makes a pair of its own.
\* That the two are one person is not checked by the callback, nor said here.
PairsComeFromFlows == \A d \in Discords : user[d] # None => <<d, user[d].osu>> \in brought

\* A state is good for one callback, even when two arrive at once.
OneCallbackPerState == \A p, q \in Procs :
    p # q /\ proc[p].token # None => proc[p].token # proc[q].token

\* While nothing fails or dies: whatever a link, an unlink or a refresh has
\* committed, a player_sync that sees it has run, is queued, or is about to be
\* queued; but for an identity that lost its account to another one, which
\* waits for reconcile.
SyncFollows == \A d \in Discords :
    faults = 0 /\ d \notin cutoff =>
        \/ synced[d] = View(d)
        \/ d \in queue
        \/ \E p \in Procs : proc[p].at = "enqueue" /\ proc[p].discord = d

\* Once an account stops changing, its cached profile and statistics catch up,
\* and its owner is synced with them, unless he unlinks again and again: what a
\* failed call has skipped, or a crash or a failed enqueue after the commit has
\* lost, a later refresh makes up for.
FactsCatchUp == \A d \in Discords :
    /\ <>[](user[d] = None \/ LET o == user[d].osu IN
                /\ user[d].profile = live[o]
                /\ \A m \in Modes : stats[o][m] = live[o])
    /\ []<>(user[d] = None) \/ <>[](synced[d] = View(d))
=============================================================================
