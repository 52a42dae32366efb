-------------------------- MODULE RefreshSchedule --------------------------
(***************************************************************************)
(* Which player is refreshed when (src/tasks/refresh.rs): the worker of    *)
(* each replica takes a batch of the players that have been due longest,   *)
(* refreshes them, and writes when each is due again, later after each     *)
(* failure.  Nothing keeps two replicas from taking the same player.       *)
(* What a refresh does to his data is Linking.                             *)
(*                                                                         *)
(* Names that other modules use as well start with Refresh here, because   *)
(* MCOverlap explores this module together with them.                      *)
(***************************************************************************)
EXTENDS Integers, FiniteSets

CONSTANTS
    Replicas,     \* each has one refresh worker
    Members,      \* discord_ids
    BatchSize,    \* REFRESH_CONCURRENCY * 4
    MaxTime,      \* bound on the clock
    MaxSlips      \* lost updates and crashes

ASSUME BatchSizeAssumption == BatchSize \in Nat \ {0}
ASSUME MaxTimeAssumption   == MaxTime \in Nat
ASSUME MaxSlipsAssumption  == MaxSlips \in Nat

VARIABLES
    now,
    linked,   \* the members that have a row
    next,     \* next_refresh_at
    failed,   \* refresh_failures
    batch,    \* by replica: who has been selected and has no end yet
    over,     \* by replica and member: who was selected while he waited
    slips

refreshVars == <<now, linked, next, failed, batch, over, slips>>

\* The unit of time is 2 hours: REFRESH_INTERVAL, and 1 << exp hours after the
\* n-th failure in a row, where exp is at most 5 and the result at most a day.
Interval   == 3
Backoff(n) == IF n >= 5 THEN 12 ELSE <<1, 2, 4, 8>>[n]

RefreshTypeOK ==
    /\ now \in 0..MaxTime
    /\ linked \in SUBSET Members
    /\ next \in [Members -> Nat]
    /\ failed \in [Members -> Nat]
    /\ batch \in [Replicas -> SUBSET Members]
    /\ over \in [Replicas -> [Members -> SUBSET Members]]
    /\ slips \in 0..MaxSlips

RefreshInit ==
    /\ now = 0
    /\ linked \in SUBSET Members
    /\ next = [m \in Members |-> 0]
    /\ failed = [m \in Members |-> 0]
    /\ batch = [r \in Replicas |-> {}]
    /\ over = [r \in Replicas |-> [m \in Members |-> {}]]
    /\ slips = 0

Due == {m \in linked : next[m] <= now}

\* m is no longer waiting.
Served(o, m) == [r \in Replicas |-> [o[r] EXCEPT ![m] = {}]]

-----------------------------------------------------------------------------
\* Mutant: no ORDER BY.
AnyOfDue(S) == S \in SUBSET Due

\* ORDER BY next_refresh_at LIMIT $1; equal times come in any order.
OldestOfDue(S) ==
    /\ S \in SUBSET Due
    /\ \A m \in S, w \in Due \ S : next[m] <= next[w]

\* Whoever is left out has been overtaken by the batch.
TakeBatch(r) ==
    /\ batch[r] = {}
    /\ \E S \in SUBSET Due :
          /\ S # {}
          /\ OldestOfDue(S)
          /\ \/ Cardinality(S) = BatchSize
             \/ Cardinality(S) < BatchSize /\ S = Due
          /\ batch' = [batch EXCEPT ![r] = S]
          /\ over' = [over EXCEPT ![r] = [m \in Members |->
                         IF m \in Due \ S THEN over[r][m] \cup S
                         ELSE IF m \in S THEN {} ELSE over[r][m]]]
    /\ UNCHANGED <<now, linked, next, failed, slips>>

Leaves(r, m) == batch' = [batch EXCEPT ![r] = @ \ {m}]

\* The upsert writes the row, and puts it back if it has gone meanwhile, with
\* its next time; the update that follows says the same.
Refreshed(r, m) ==
    /\ m \in batch[r]
    /\ Leaves(r, m)
    /\ linked' = linked \cup {m}
    /\ next' = [next EXCEPT ![m] = now + Interval]
    /\ failed' = [failed EXCEPT ![m] = 0]
    /\ over' = Served(over, m)
    /\ UNCHANGED <<now, slips>>

Postponed(m) == next' = [next EXCEPT ![m] = now + Backoff(failed[m] + 1)]

\* Mutant: a failure is logged, and the player stays as he is.
RefreshFailedUnseen(r, m) ==
    /\ m \in batch[r]
    /\ Leaves(r, m)
    /\ UNCHANGED <<now, linked, next, failed, over, slips>>

\* Some call fails: an update of the row, if there is one.  When only the
\* player_sync could not be enqueued, the upsert has been committed.
RefreshFailed(r, m) ==
    /\ m \in batch[r]
    /\ Leaves(r, m)
    /\ \/ /\ m \in linked
          /\ Postponed(m)
          /\ failed' = [failed EXCEPT ![m] = @ + 1]
          /\ over' = Served(over, m)
          /\ UNCHANGED linked
       \/ m \notin linked /\ UNCHANGED <<linked, next, failed, over>>
       \/ /\ linked' = linked \cup {m}
          /\ next' = [next EXCEPT ![m] = now + Backoff(1)]
          /\ failed' = [failed EXCEPT ![m] = 1]
          /\ over' = Served(over, m)
    /\ UNCHANGED <<now, slips>>

\* Who is taken again because nothing was written of the first time does not
\* count as overtaking anybody.
Forget(o, r, S) == [o EXCEPT ![r] = [m \in Members |-> @[m] \ S]]

Slip == slips < MaxSlips /\ slips' = slips + 1

\* Its result is thrown away: the statement that postpones a failed refresh
\* may fail as well.
UpdateLost(r, m) ==
    /\ m \in batch[r]
    /\ Slip
    /\ Leaves(r, m)
    /\ over' = Forget(over, r, {m})
    /\ UNCHANGED <<now, linked, next, failed>>

\* The process dies or is shut down; its successor starts from the table.
ReplicaRestarts(r) ==
    /\ batch[r] # {}
    /\ Slip
    /\ batch' = [batch EXCEPT ![r] = {}]
    /\ over' = Forget(over, r, batch[r])
    /\ UNCHANGED <<now, linked, next, failed>>

\* A callback links a member, or links him anew.
RefreshLink(m) ==
    /\ linked' = linked \cup {m}
    /\ next' = [next EXCEPT ![m] = now + Interval]
    /\ failed' = [failed EXCEPT ![m] = 0]
    /\ over' = Served(over, m)
    /\ linked' # linked \/ next' # next
    /\ UNCHANGED <<now, batch, slips>>

RefreshUnlink(m) ==
    /\ m \in linked
    /\ linked' = linked \ {m}
    /\ over' = Served(over, m)
    /\ UNCHANGED <<now, next, failed, batch, slips>>

RefreshTick ==
    /\ now < MaxTime
    /\ now' = now + 1
    /\ UNCHANGED <<linked, next, failed, batch, over, slips>>

RefreshEnds(r, m) == Refreshed(r, m) \/ RefreshFailed(r, m) \/ UpdateLost(r, m)

RefreshNext ==
    \/ \E r \in Replicas : TakeBatch(r) \/ ReplicaRestarts(r)
    \/ \E r \in Replicas, m \in Members : RefreshEnds(r, m)
    \/ \E m \in Members : RefreshLink(m) \/ RefreshUnlink(m)
    \/ RefreshTick

RefreshSpec == RefreshInit /\ [][RefreshNext]_refreshVars

\* A worker goes on with its loop, and every call it makes has a timeout.
RefreshFairness ==
    \A r \in Replicas :
        /\ WF_refreshVars(TakeBatch(r))
        /\ WF_refreshVars(\E m \in Members : RefreshEnds(r, m))

-----------------------------------------------------------------------------
(* Properties                                                              *)

\* "Priority by staleness": while a player waits, a worker takes each other
\* one ahead of him at most once, whatever fails, is linked or unlinked in
\* between, and whatever another replica does.
OvertakenOnce ==
    [][\A r \in Replicas, m \in Members :
           m \in Due /\ batch[r] = {} /\ m \notin batch'[r] =>
               batch'[r] \cap over[r][m] = {}]_refreshVars

\* A player who is due is refreshed, postponed or gone at last: nobody who
\* fails again and again keeps the others from it.
DueIsTaken == \A m \in Members : (m \in Due) ~> (m \notin Due)
=============================================================================
