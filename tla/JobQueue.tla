------------------------------ MODULE JobQueue ------------------------------
(***************************************************************************)
(* The durable job queue: the jobs table and its statements                *)
(* (src/services/jobs.rs), the worker loop that drains it                  *)
(* (src/tasks/job_worker.rs), the LISTEN/NOTIFY wake-up                    *)
(* (src/tasks/job_listener.rs), the sweep of old rows                      *)
(* (src/tasks/reconcile.rs) and the shutdown message                       *)
(* (src/tasks/shutdown.rs).                                                *)
(*                                                                         *)
(* One statement against Postgres is one action.  Between two statements   *)
(* of a worker anything else may happen, a crash of the worker included.   *)
(* Time appears only through what the statements compare it with: due[j]   *)
(* is "next_run_at <= now()" and lock_old[j] is "locked_at < now() - 45    *)
(* minutes".                                                               *)
(***************************************************************************)
EXTENDS Integers, FiniteSets

CONSTANTS
    Jobs,         \* ids of the rows that may be inserted (BIGSERIAL)
    Workers,      \* worker tasks, each with a ShutdownGuard of its own
    NoWorker,     \* locked_by IS NULL
    NoJob,        \* the worker is dispatching nothing
    BatchSize,    \* BATCH_SIZE
    MaxAttempts,  \* max_attempts
    MaxFaults,    \* bound on crashes, lost replies, shutdowns and late locks
    SlowBatches   \* may a batch of several syncs outlive STUCK_LOCK_SECS?

ASSUME JobsAssumption        == Jobs \subseteq Nat
ASSUME BatchSizeAssumption   == BatchSize \in Nat \ {0}
ASSUME MaxAttemptsAssumption == MaxAttempts \in Nat \ {0}
ASSUME MaxFaultsAssumption   == MaxFaults \in Nat
ASSUME SlowBatchesAssumption == SlowBatches \in BOOLEAN
ASSUME NoWorkerAssumption    == NoWorker \notin Workers
ASSUME NoJobAssumption       == NoJob \notin Jobs

VARIABLES
    \* the jobs table
    status,     \* "absent" before the INSERT, "deleted" after the sweep
    attempts,
    due,        \* next_run_at <= now()
    locked_by,
    lock_old,   \* locked_at is further back than STUCK_LOCK_SECS
    notify,     \* a NOTIFY on jobs_pending is on its way to the listener
    \* each worker
    pc,
    held,       \* held[w][j]: j.attempts as w's claim returned it; 0 if w
                \* does not (or no longer) hold j in `claimed`
    current,    \* the job w is dispatching
    outcome,    \* what dispatch returned and w has not recorded yet
    spent,      \* w has already run a job of the batch it holds
    signal,     \* the shutdown message: "none", "sent", or "seen" (received)
    \* what happened so far
    served,     \* jobs some dispatch of which returned Ok
    doomed,     \* jobs some dispatch of which failed for good
    faults      \* crashes, lost replies, shutdowns and late locks so far

table  == <<status, attempts, due, locked_by, lock_old>>
local  == <<pc, held, current, outcome, spent, signal>>
past   == <<served, doomed>>
vars   == <<table, notify, local, past, faults>>

Status  == {"absent", "pending", "in_progress", "completed", "dead", "deleted"}
Pc      == {"top", "claim", "idle", "pause", "batch", "run", "report", "down"}
Outcome == {"ok", "terminal", "retry"}

TypeOK ==
    /\ status \in [Jobs -> Status]
    /\ attempts \in [Jobs -> Nat]
    /\ due \in [Jobs -> BOOLEAN]
    /\ locked_by \in [Jobs -> Workers \cup {NoWorker}]
    /\ lock_old \in [Jobs -> BOOLEAN]
    /\ notify \in BOOLEAN
    /\ pc \in [Workers -> Pc]
    /\ held \in [Workers -> [Jobs -> Nat]]
    /\ current \in [Workers -> Jobs \cup {NoJob}]
    /\ \A w \in Workers : pc[w] \in {"run", "report"} => current[w] \in Jobs
    /\ outcome \in [Workers -> Outcome \cup {"none"}]
    /\ spent \in [Workers -> BOOLEAN]
    /\ signal \in [Workers -> {"none", "sent", "seen"}]
    /\ served \subseteq Jobs
    /\ doomed \subseteq Jobs
    /\ faults \in 0..MaxFaults

Init ==
    /\ status = [j \in Jobs |-> "absent"]
    /\ attempts = [j \in Jobs |-> 0]
    /\ due = [j \in Jobs |-> FALSE]
    /\ locked_by = [j \in Jobs |-> NoWorker]
    /\ lock_old = [j \in Jobs |-> FALSE]
    /\ notify = FALSE
    /\ pc = [w \in Workers |-> "top"]
    /\ held = [w \in Workers |-> [j \in Jobs |-> 0]]
    /\ current = [w \in Workers |-> NoJob]
    /\ outcome = [w \in Workers |-> "none"]
    /\ spent = [w \in Workers |-> FALSE]
    /\ signal = [w \in Workers |-> "none"]
    /\ served = {}
    /\ doomed = {}
    /\ faults = 0

Goto(w, label) == pc' = [pc EXCEPT ![w] = label]

Fault == /\ faults < MaxFaults
         /\ faults' = faults + 1

HeldBy(w)   == {j \in Jobs : held[w][j] > 0}
IsHeld(j)   == \E w \in Workers : held[w][j] > 0
Unlocked(j) == /\ locked_by' = [locked_by EXCEPT ![j] = NoWorker]
               /\ lock_old' = [lock_old EXCEPT ![j] = FALSE]

-----------------------------------------------------------------------------
(* The statements of jobs.rs                                               *)

\* A new row; NOTIFY fires when the row can run at once (player_sync), not
\* when it is delayed (config_sync).
Enqueue(j, delayed) ==
    /\ status[j] = "absent"
    /\ status' = [status EXCEPT ![j] = "pending"]
    /\ due' = [due EXCEPT ![j] = ~delayed]
    /\ notify' = (notify \/ ~delayed)
    /\ UNCHANGED <<attempts, locked_by, lock_old, local, past, faults>>

\* Mutant: the subselect of the claim without its status = 'pending'.
EligibleWhateverStatus == {j \in Jobs : status[j] \in {"pending", "in_progress"} /\ due[j]}

Eligible == {j \in Jobs : status[j] = "pending" /\ due[j]}

\* ORDER BY id LIMIT BatchSize.
Batch == {j \in Eligible : Cardinality({k \in Eligible : k < j}) < BatchSize}

ClaimRows(w, B) ==
    /\ status' = [j \in Jobs |-> IF j \in B THEN "in_progress" ELSE status[j]]
    /\ attempts' = [j \in Jobs |-> IF j \in B THEN attempts[j] + 1 ELSE attempts[j]]
    /\ locked_by' = [j \in Jobs |-> IF j \in B THEN w ELSE locked_by[j]]
    /\ lock_old' = [j \in Jobs |-> IF j \in B THEN FALSE ELSE lock_old[j]]
    /\ UNCHANGED due

\* complete, fail_dead and fail_retry update the row by its id alone: neither
\* the status nor the owner of the lock is part of their WHERE.
Complete(j) ==
    /\ status' = [status EXCEPT ![j] = "completed"]
    /\ Unlocked(j)
    /\ UNCHANGED <<attempts, due>>

FailDead(j) ==
    /\ status' = [status EXCEPT ![j] = "dead"]
    /\ Unlocked(j)
    /\ UNCHANGED <<attempts, due>>

FailRetry(j) ==
    /\ status' = [status EXCEPT ![j] = "pending"]
    /\ due' = [due EXCEPT ![j] = FALSE]
    /\ Unlocked(j)
    /\ UNCHANGED attempts

\* Mutant: every job in progress is stuck, however young its lock.
StuckWhateverAge == {j \in Jobs : status[j] = "in_progress"}

Stuck == {j \in Jobs : status[j] = "in_progress" /\ lock_old[j]}

\* Mutant: a reaped job starts over with all its attempts.
ReapStuckAnew ==
    /\ status' = [j \in Jobs |-> IF j \in Stuck THEN "pending" ELSE status[j]]
    /\ due' = [j \in Jobs |-> IF j \in Stuck THEN TRUE ELSE due[j]]
    /\ locked_by' = [j \in Jobs |-> IF j \in Stuck THEN NoWorker ELSE locked_by[j]]
    /\ lock_old' = [j \in Jobs |-> IF j \in Stuck THEN FALSE ELSE lock_old[j]]
    /\ attempts' = [j \in Jobs |-> IF j \in Stuck THEN 0 ELSE attempts[j]]

ReapStuck ==
    /\ status' = [j \in Jobs |-> IF j \in Stuck THEN "pending" ELSE status[j]]
    /\ due' = [j \in Jobs |-> IF j \in Stuck THEN TRUE ELSE due[j]]
    /\ locked_by' = [j \in Jobs |-> IF j \in Stuck THEN NoWorker ELSE locked_by[j]]
    /\ lock_old' = [j \in Jobs |-> IF j \in Stuck THEN FALSE ELSE lock_old[j]]
    /\ UNCHANGED attempts

-----------------------------------------------------------------------------
(* The worker loop of job_worker.rs                                        *)

\* shutdown.is_triggered(): try_recv takes the message out of the channel.
\* It answers TRUE once; afterwards the channel is empty and still open.
IsTriggered(w) == signal[w] = "sent"
Consume(w)     == signal' = [signal EXCEPT ![w] = "seen"]

StopAtTop(w) ==
    /\ pc[w] = "top"
    /\ IsTriggered(w)
    /\ Consume(w)
    /\ Goto(w, "down")
    /\ UNCHANGED <<table, notify, held, current, outcome, spent, past, faults>>

\* The 120 s since this worker's last reap have passed ...
Reap(w) ==
    /\ pc[w] = "top"
    /\ ~IsTriggered(w)
    /\ ReapStuck
    /\ Goto(w, "claim")
    /\ UNCHANGED <<notify, held, current, outcome, spent, signal, past, faults>>

\* ... or they have not (or reap_stuck failed).
SkipReap(w) ==
    /\ pc[w] = "top"
    /\ ~IsTriggered(w)
    /\ Goto(w, "claim")
    /\ UNCHANGED <<table, notify, held, current, outcome, spent, signal, past, faults>>

Claim(w) ==
    /\ pc[w] = "claim"
    /\ Goto(w, IF Batch = {} THEN "idle" ELSE "batch")
    /\ ClaimRows(w, Batch)
    /\ held' = [held EXCEPT ![w] =
                   [j \in Jobs |-> IF j \in Batch THEN attempts[j] + 1 ELSE 0]]
    /\ spent' = [spent EXCEPT ![w] = FALSE]
    /\ UNCHANGED <<notify, current, outcome, signal, past, faults>>

\* claim_batch returns an error.  The UPDATE may have been committed all the
\* same, when it is the reply that was lost.
ClaimFails(w) ==
    /\ pc[w] = "claim"
    /\ Fault
    /\ Goto(w, "pause")
    /\ \/ ClaimRows(w, Batch)
       \/ UNCHANGED table
    /\ UNCHANGED <<notify, held, current, outcome, spent, signal, past>>

\* The three arms of select! when there was nothing to claim; after an error
\* ("pause") only the last two.  notify_waiters wakes whoever is waiting now
\* and leaves nothing behind for a worker that is not; the message is lost
\* when the listener is reconnecting.
NotifyWaiters ==
    /\ notify
    /\ notify' = FALSE
    /\ pc' = [w \in Workers |-> IF pc[w] = "idle" THEN "top" ELSE pc[w]]
    /\ UNCHANGED <<table, held, current, outcome, spent, signal, past, faults>>

NotifyLost ==
    /\ notify
    /\ notify' = FALSE
    /\ UNCHANGED <<table, local, past, faults>>

\* Mutant: no poll while there is nothing to do, only NOTIFY.
PollAfterErrorOnly(w) ==
    /\ pc[w] = "pause"
    /\ Goto(w, "top")
    /\ UNCHANGED <<table, notify, held, current, outcome, spent, signal, past, faults>>

Poll(w) ==
    /\ pc[w] \in {"idle", "pause"}
    /\ Goto(w, "top")
    /\ UNCHANGED <<table, notify, held, current, outcome, spent, signal, past, faults>>

StopWaiting(w) ==
    /\ pc[w] \in {"idle", "pause"}
    /\ signal[w] = "sent"
    /\ Consume(w)
    /\ Goto(w, "down")
    /\ UNCHANGED <<table, notify, held, current, outcome, spent, past, faults>>

\* Mutant: on to the next job of the batch without having taken one.
LetGoUnchosen(w, j) ==
    /\ held' = [held EXCEPT ![w][j] = 0]
    /\ Goto(w, IF HeldBy(w) = {j} THEN "top" ELSE "run")

\* w is done with j: the `for` takes the next job of `claimed`, or the loop
\* starts over.
LetGo(w, j) ==
    /\ held' = [held EXCEPT ![w][j] = 0]
    /\ Goto(w, IF HeldBy(w) = {j} THEN "top" ELSE "batch")

\* The rows come back from UPDATE ... RETURNING in no particular order.
Release(w, j) ==
    /\ pc[w] = "batch"
    /\ j \in HeldBy(w)
    /\ IsTriggered(w)
    /\ Consume(w)
    /\ FailRetry(j)
    /\ LetGo(w, j)
    /\ UNCHANGED <<notify, current, outcome, spent, past, faults>>

\* The statement fails: the error is logged, the row stays in_progress.
ReleaseFails(w, j) ==
    /\ pc[w] = "batch"
    /\ j \in HeldBy(w)
    /\ IsTriggered(w)
    /\ Fault
    /\ Consume(w)
    /\ LetGo(w, j)
    /\ UNCHANGED <<table, notify, current, outcome, spent, past>>

Dispatch(w, j) ==
    /\ pc[w] = "batch"
    /\ j \in HeldBy(w)
    /\ ~IsTriggered(w)
    /\ current' = [current EXCEPT ![w] = j]
    /\ Goto(w, "run")
    /\ UNCHANGED <<table, notify, held, outcome, spent, signal, past, faults>>

\* Mutants: one attempt too many, one too few.
ExhaustedLate(w, j)  == held[w][j] > MaxAttempts
ExhaustedEarly(w, j) == held[w][j] >= MaxAttempts - 1

\* Retry is given up once the attempts the claim returned reach the maximum.
Exhausted(w, j) == held[w][j] >= MaxAttempts

DispatchReturns(w, result) ==
    LET j == current[w] IN
    /\ pc[w] = "run"
    /\ outcome' = [outcome EXCEPT ![w] = result]
    /\ served' = IF result = "ok" THEN served \cup {j} ELSE served
    /\ doomed' = IF result = "terminal" \/ (result = "retry" /\ held[w][j] >= MaxAttempts)
                    THEN doomed \cup {j} ELSE doomed
    /\ Goto(w, "report")
    /\ UNCHANGED <<table, notify, held, current, spent, signal, faults>>

\* Mutant: what has succeeded is put back, too.
RecordOkAsRetry(w, j) ==
    \/ outcome[w] = "terminal" /\ FailDead(j)
    \/ outcome[w] \in {"ok", "retry"} /\ Exhausted(w, j) /\ FailDead(j)
    \/ outcome[w] \in {"ok", "retry"} /\ ~Exhausted(w, j) /\ FailRetry(j)

Record(w, j) ==
    \/ outcome[w] = "ok" /\ Complete(j)
    \/ outcome[w] = "terminal" /\ FailDead(j)
    \/ outcome[w] = "retry" /\ Exhausted(w, j) /\ FailDead(j)
    \/ outcome[w] = "retry" /\ ~Exhausted(w, j) /\ FailRetry(j)

EndOfJob(w) ==
    /\ LetGo(w, current[w])
    /\ current' = [current EXCEPT ![w] = NoJob]
    /\ outcome' = [outcome EXCEPT ![w] = "none"]
    /\ spent' = [spent EXCEPT ![w] = TRUE]

Report(w) ==
    /\ pc[w] = "report"
    /\ Record(w, current[w])
    /\ EndOfJob(w)
    /\ UNCHANGED <<notify, signal, past, faults>>

\* So does a row whose end could not be recorded.
ReportFails(w) ==
    /\ pc[w] = "report"
    /\ Fault
    /\ EndOfJob(w)
    /\ UNCHANGED <<table, notify, signal, past>>

-----------------------------------------------------------------------------
(* Time, the sweep, and the process                                        *)

RunAtReached(j) ==
    /\ status[j] = "pending"
    /\ ~due[j]
    /\ due' = [due EXCEPT ![j] = TRUE]
    /\ UNCHANGED <<status, attempts, locked_by, lock_old, notify, local, past, faults>>

\* Nobody works on the row any more: its lock grows old.
LockAges(j) ==
    /\ status[j] = "in_progress"
    /\ ~lock_old[j]
    /\ ~IsHeld(j)
    /\ lock_old' = [lock_old EXCEPT ![j] = TRUE]
    /\ UNCHANGED <<status, attempts, due, locked_by, notify, local, past, faults>>

\* locked_at is set once for the whole batch.  No single sync takes 45
\* minutes, but after one sync the lock of a job that waits behind it, or
\* that runs next, may be older than that.
LockAgesInBatch(w, j) ==
    /\ SlowBatches
    /\ Fault
    /\ j \in HeldBy(w)
    /\ spent[w]
    /\ status[j] = "in_progress"
    /\ locked_by[j] = w
    /\ ~lock_old[j]
    /\ lock_old' = [lock_old EXCEPT ![j] = TRUE]
    /\ UNCHANGED <<status, attempts, due, locked_by, notify, local, past>>

\* Mutant: the sweep goes by age alone.
SweepWhateverStatus(j) ==
    /\ status[j] \notin {"absent", "in_progress", "deleted"}
    /\ ~IsHeld(j)
    /\ status' = [status EXCEPT ![j] = "deleted"]
    /\ UNCHANGED <<attempts, due, locked_by, lock_old, notify, local, past, faults>>

\* gc(): completed for 24 h, dead for 30 days.  No worker holds a row so long.
Sweep(j) ==
    /\ status[j] \in {"completed", "dead"}
    /\ ~IsHeld(j)
    /\ status' = [status EXCEPT ![j] = "deleted"]
    /\ UNCHANGED <<attempts, due, locked_by, lock_old, notify, local, past, faults>>

\* SIGTERM: each guard gets one message.
Trigger(w) ==
    /\ pc[w] # "down"
    /\ signal[w] = "none"
    /\ Fault
    /\ signal' = [signal EXCEPT ![w] = "sent"]
    /\ UNCHANGED <<table, notify, pc, held, current, outcome, spent, past>>

\* The process dies (panic = "abort", SIGKILL): what it knew is gone.
Crash(w) ==
    /\ pc[w] # "down"
    /\ Fault
    /\ Goto(w, "down")
    /\ held' = [held EXCEPT ![w] = [j \in Jobs |-> 0]]
    /\ current' = [current EXCEPT ![w] = NoJob]
    /\ outcome' = [outcome EXCEPT ![w] = "none"]
    /\ UNCHANGED <<table, notify, spent, signal, past>>

Restart(w) ==
    /\ pc[w] = "down"
    /\ Goto(w, "top")
    /\ spent' = [spent EXCEPT ![w] = FALSE]
    /\ signal' = [signal EXCEPT ![w] = "none"]
    /\ UNCHANGED <<table, notify, held, current, outcome, past, faults>>

-----------------------------------------------------------------------------
WorkerStep(w) ==
    \/ StopAtTop(w) \/ Reap(w) \/ SkipReap(w)
    \/ Claim(w) \/ Poll(w) \/ StopWaiting(w)
    \/ \E j \in Jobs : Release(w, j) \/ Dispatch(w, j)
    \/ \E result \in Outcome : DispatchReturns(w, result)
    \/ Report(w)

WorkerFault(w) ==
    \/ ClaimFails(w) \/ ReportFails(w) \/ Trigger(w) \/ Crash(w)
    \/ \E j \in Jobs : ReleaseFails(w, j) \/ LockAgesInBatch(w, j)

Environment ==
    \/ \E j \in Jobs :
          \/ \E delayed \in BOOLEAN : Enqueue(j, delayed)
          \/ RunAtReached(j) \/ LockAges(j) \/ Sweep(j)
    \/ NotifyWaiters \/ NotifyLost

Next ==
    \/ \E w \in Workers : WorkerStep(w) \/ WorkerFault(w) \/ Restart(w)
    \/ Environment

Spec == Init /\ [][Next]_vars

(***************************************************************************)
(* A worker keeps running (each HTTP request of a sync and each statement  *)
(* has a timeout), a dead process is restarted, clocks advance, and a      *)
(* worker that passes the top of its loop for ever reaps every 120 s.      *)
(* Nothing is assumed of NOTIFY, nor of the faults.                        *)
(***************************************************************************)
Fairness ==
    /\ \A w \in Workers : /\ WF_vars(WorkerStep(w))
                          /\ SF_vars(Reap(w))
                          /\ WF_vars(Restart(w))
    /\ \A j \in Jobs : WF_vars(RunAtReached(j)) /\ WF_vars(LockAges(j))

FairSpec == Spec /\ Fairness

-----------------------------------------------------------------------------
(* Properties                                                              *)

\* A worker that still has j in `claimed` is its one owner: the row is
\* in_progress, locked by it, at the attempt its claim returned, and the lock
\* is too young for reap_stuck.  This is what makes it safe that complete,
\* fail_dead and fail_retry update the row by its id alone.  It needs the
\* batch to end before its lock is old (~SlowBatches).
ClaimIsFence ==
    \A w \in Workers, j \in Jobs : held[w][j] > 0 =>
        /\ status[j] = "in_progress"
        /\ locked_by[j] = w
        /\ attempts[j] = held[w][j]
        /\ ~lock_old[j]

\* Whatever the reaper, the crashes and the slow batches do, `attempts` tells
\* the claims of a job apart: no two workers hold it at the same attempt.
AttemptsIdentifyClaim ==
    \A w \in Workers, j \in Jobs :
        /\ held[w][j] <= attempts[j]
        /\ \A v \in Workers \ {w} : held[w][j] > 0 => held[v][j] # held[w][j]

\* Claims count against max_attempts even when they end in no report, but
\* neither the reaper nor the release of a shutdown looks at the maximum.  A
\* job goes beyond it only once for each fault.
AttemptBudget == \A j \in Jobs : attempts[j] <= MaxAttempts + faults

\* As long as nothing goes wrong a job that was carried out is not carried
\* out again: it is not back in the queue and no worker is dispatching it.
ExactlyOnceWithoutFaults ==
    faults = 0 => \A j \in served :
        /\ status[j] \in {"in_progress", "completed", "deleted"}
        /\ \A w \in Workers : pc[w] = "run" => current[w] # j

\* Nothing ends in the DLQ by accident (job_worker.rs, Terminal and Retry):
\* some dispatch of it failed for good, or failed at the last attempt.
DeadIsJustified == \A j \in Jobs : status[j] = "dead" => j \in doomed

Lifecycle == INSTANCE JobLifecycle WITH phase <- status

\* The queue keeps the lifecycle of its migration, and every job that was
\* enqueued is at last completed or dead, NOTIFY or not (the poll is the
\* safety net).
LifecycleSpec == Lifecycle!Spec
LifecycleSettles == Lifecycle!Settles

\* job_worker.rs: "Workers stop accepting new work on shutdown": a worker that
\* has received the message claims nothing any more.
NoClaimAfterShutdown ==
    [][\A w \in Workers : signal[w] = "seen" /\ signal'[w] = "seen"
                              => {j \in Jobs : held'[w][j] > 0} \subseteq HeldBy(w)]_vars

\* migrations/004_jobs.sql: replicas "drain in parallel without
\* double-processing".
NoDoubleProcessing ==
    \A w, v \in Workers :
        w # v /\ pc[w] = "run" /\ pc[v] = "run" => current[w] # current[v]
=============================================================================
