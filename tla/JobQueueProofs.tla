--------------------------- MODULE JobQueueProofs ---------------------------
(***************************************************************************)
(* What JobQueue guarantees for any set of rows and workers, any batch     *)
(* size and any number of faults: one owner for each claim, the lifecycle  *)
(* of a row, and what the table tells of the past, namely which claim a    *)
(* count of attempts stands for, how many there may be, why a job is in    *)
(* the DLQ, and that a job which has been carried out stays carried out.   *)
(***************************************************************************)
EXTENDS JobQueue, FiniteSetTheorems, TLAPS

USE DEF Status, Pc, Outcome

-----------------------------------------------------------------------------
(* Type correctness                                                        *)

\* Claiming keeps the table well typed.
LEMMA ClaimRowsType ==
    ASSUME TypeOK, NEW w \in Workers, NEW B \in SUBSET Jobs, ClaimRows(w, B)
    PROVE  /\ status' \in [Jobs -> Status]
           /\ attempts' \in [Jobs -> Nat]
           /\ due' \in [Jobs -> BOOLEAN]
           /\ locked_by' \in [Jobs -> Workers \cup {NoWorker}]
           /\ lock_old' \in [Jobs -> BOOLEAN]
<1> USE DEF TypeOK, ClaimRows
<1>1. status' \in [Jobs -> Status]
  OBVIOUS
<1>2. attempts' \in [Jobs -> Nat]
  OBVIOUS
<1>3. locked_by' \in [Jobs -> Workers \cup {NoWorker}]
  OBVIOUS
<1>4. lock_old' \in [Jobs -> BOOLEAN]
  OBVIOUS
<1>5. QED
  BY <1>1, <1>2, <1>3, <1>4

\* So does recording how a job ended, and giving it back.
LEMMA RecordType ==
    ASSUME TypeOK, NEW j \in Jobs, Complete(j) \/ FailDead(j) \/ FailRetry(j)
    PROVE  /\ status' \in [Jobs -> Status]
           /\ attempts' \in [Jobs -> Nat]
           /\ due' \in [Jobs -> BOOLEAN]
           /\ locked_by' \in [Jobs -> Workers \cup {NoWorker}]
           /\ lock_old' \in [Jobs -> BOOLEAN]
BY DEF TypeOK, Complete, FailDead, FailRetry, Unlocked

\* The steps of a worker preserve TypeOK.
LEMMA WorkerStepType ==
    ASSUME TypeOK, NEW w \in Workers, WorkerStep(w)
    PROVE  TypeOK'
<1> USE DEF Goto, Consume, table, local, past
<1>1. CASE StopAtTop(w)
  BY <1>1 DEF TypeOK, StopAtTop
<1>2. CASE Reap(w)
  BY <1>2 DEF TypeOK, Reap, ReapStuck
<1>3. CASE SkipReap(w)
  BY <1>3 DEF TypeOK, SkipReap
<1>4. CASE Claim(w)
  <2>1. Batch \in SUBSET Jobs
    BY DEF Batch, Eligible
  <2>2. QED
    BY <1>4, <2>1, ClaimRowsType DEF TypeOK, Claim
<1>5. CASE Poll(w) \/ StopWaiting(w)
  BY <1>5 DEF TypeOK, Poll, StopWaiting
<1>6. ASSUME NEW j \in Jobs, Release(w, j) PROVE TypeOK'
  BY <1>6, RecordType DEF TypeOK, Release, LetGo
<1>7. ASSUME NEW j \in Jobs, Dispatch(w, j) PROVE TypeOK'
  BY <1>7 DEF TypeOK, Dispatch
<1>8. ASSUME NEW result \in Outcome, DispatchReturns(w, result) PROVE TypeOK'
  <2>1. served' \subseteq Jobs \cup {current[w]} /\ doomed' \subseteq Jobs \cup {current[w]}
    BY <1>8 DEF TypeOK, DispatchReturns
  <2>2. QED
    BY <1>8, <2>1 DEF TypeOK, DispatchReturns
<1>9. CASE Report(w)
  BY <1>9, RecordType DEF TypeOK, Report, Record, EndOfJob, LetGo
<1>10. QED
  BY <1>1, <1>2, <1>3, <1>4, <1>5, <1>6, <1>7, <1>8, <1>9 DEF WorkerStep

\* The faults preserve it.
LEMMA WorkerFaultType ==
    ASSUME TypeOK, NEW w \in Workers, WorkerFault(w)
    PROVE  TypeOK'
<1> USE DEF Goto, table, local, past
<1>1. ASSUME Fault PROVE faults' \in 0..MaxFaults
  BY <1>1, MaxFaultsAssumption DEF TypeOK, Fault
<1>2. CASE ClaimFails(w)
  <2>1. Batch \in SUBSET Jobs
    BY DEF Batch, Eligible
  <2>2. QED
    BY <1>1, <1>2, <2>1, ClaimRowsType DEF TypeOK, ClaimFails
<1>3. CASE ReportFails(w)
  BY <1>1, <1>3 DEF TypeOK, ReportFails, EndOfJob, LetGo
<1>4. CASE Trigger(w)
  BY <1>1, <1>4 DEF TypeOK, Trigger
<1>5. CASE Crash(w)
  BY <1>1, <1>5 DEF TypeOK, Crash
<1>6. ASSUME NEW j \in Jobs, LockAgesInBatch(w, j) PROVE TypeOK'
  BY <1>1, <1>6 DEF TypeOK, LockAgesInBatch
<1>7. ASSUME NEW j \in Jobs, ReleaseFails(w, j) PROVE TypeOK'
  BY <1>1, <1>7 DEF TypeOK, ReleaseFails, LetGo, Consume
<1>8. QED
  BY <1>2, <1>3, <1>4, <1>5, <1>6, <1>7 DEF WorkerFault

\* And so does everything around the workers.
LEMMA EnvironmentType ==
    ASSUME TypeOK, Environment
    PROVE  TypeOK'
<1> USE DEF Goto, table, local, past
<1>1. ASSUME NEW j \in Jobs, NEW delayed \in BOOLEAN, Enqueue(j, delayed) PROVE TypeOK'
  BY <1>1 DEF TypeOK, Enqueue
<1>2. ASSUME NEW j \in Jobs, RunAtReached(j) \/ LockAges(j) \/ Sweep(j) PROVE TypeOK'
  BY <1>2 DEF TypeOK, RunAtReached, LockAges, Sweep
<1>3. CASE NotifyWaiters
  BY <1>3 DEF TypeOK, NotifyWaiters
<1>4. CASE NotifyLost
  BY <1>4 DEF TypeOK, NotifyLost
<1>5. QED
  BY <1>1, <1>2, <1>3, <1>4 DEF Environment

\* The variables of the queue hold values of their types: in particular a
\* worker that dispatches or reports always has a job to report on.
THEOREM TypeCorrect == Spec => []TypeOK
<1>1. Init => TypeOK
  <2> SUFFICES ASSUME Init PROVE TypeOK
    OBVIOUS
  <2> USE DEF Init
  <2>1. /\ status \in [Jobs -> Status] /\ attempts \in [Jobs -> Nat]
        /\ due \in [Jobs -> BOOLEAN] /\ lock_old \in [Jobs -> BOOLEAN]
        /\ locked_by \in [Jobs -> Workers \cup {NoWorker}] /\ notify \in BOOLEAN
    OBVIOUS
  <2>2. /\ pc \in [Workers -> Pc] /\ held \in [Workers -> [Jobs -> Nat]]
        /\ current \in [Workers -> Jobs \cup {NoJob}]
        /\ \A w \in Workers : pc[w] \notin {"run", "report"}
    OBVIOUS
  <2>3. /\ outcome \in [Workers -> Outcome \cup {"none"}]
        /\ spent \in [Workers -> BOOLEAN]
        /\ signal \in [Workers -> {"none", "sent", "seen"}]
    OBVIOUS
  <2>4. served \subseteq Jobs /\ doomed \subseteq Jobs /\ faults \in 0..MaxFaults
    BY MaxFaultsAssumption
  <2>5. QED
    BY <2>1, <2>2, <2>3, <2>4 DEF TypeOK
<1>2. TypeOK /\ [Next]_vars => TypeOK'
  <2> SUFFICES ASSUME TypeOK, [Next]_vars PROVE TypeOK'
    OBVIOUS
  <2>1. ASSUME NEW w \in Workers, Restart(w) PROVE TypeOK'
    BY <2>1 DEF TypeOK, Restart, Goto, table, past
  <2>2. CASE UNCHANGED vars
    BY <2>2 DEF TypeOK, vars, table, local, past
  <2>3. QED
    BY <2>1, <2>2, WorkerStepType, WorkerFaultType, EnvironmentType DEF Next
<1>3. QED
  BY <1>1, <1>2, PTL DEF Spec

-----------------------------------------------------------------------------
(* One owner for each claim, when no batch outlives its lock               *)

\* ClaimIsFence alone is not inductive: that reporting disturbs nobody else
\* takes knowing that the reporting worker still holds the job.
Owning == \A w \in Workers : pc[w] \in {"run", "report"} => current[w] \in HeldBy(w)

OwnerInv == TypeOK /\ ClaimIsFence /\ Owning

\* A claim takes only rows that no worker holds.
LEMMA BatchIsFree ==
    ASSUME OwnerInv
    PROVE  /\ Batch \in SUBSET Jobs
           /\ \A j \in Batch : status[j] = "pending" /\ ~IsHeld(j)
BY DEF OwnerInv, ClaimIsFence, Batch, Eligible, IsHeld

\* A statement on the row that w holds touches no other worker's row.
LEMMA RowIsOwn ==
    ASSUME OwnerInv, NEW w \in Workers, NEW j \in HeldBy(w), NEW v \in Workers \ {w}
    PROVE  held[v][j] = 0
BY DEF OwnerInv, TypeOK, ClaimIsFence, HeldBy

\* The steps of a worker keep each claim with its owner.
LEMMA WorkerStepOwner ==
    ASSUME OwnerInv, TypeOK', NEW w \in Workers, WorkerStep(w)
    PROVE  (ClaimIsFence /\ Owning)'
<1> USE DEF OwnerInv, HeldBy, Goto, table, local, past
<1>1. CASE StopAtTop(w) \/ SkipReap(w) \/ Poll(w) \/ StopWaiting(w)
  BY <1>1 DEF StopAtTop, SkipReap, Poll, StopWaiting, ClaimIsFence, Owning, TypeOK
<1>2. CASE Reap(w)
  <2>1. \A j \in Jobs : IsHeld(j) => j \notin Stuck
    BY DEF ClaimIsFence, IsHeld, Stuck
  <2>2. QED
    BY <1>2, <2>1 DEF Reap, ReapStuck, ClaimIsFence, Owning, TypeOK, IsHeld
<1>3. CASE Claim(w)
  <2>1. ClaimIsFence'
    BY <1>3, BatchIsFree DEF Claim, ClaimRows, ClaimIsFence, TypeOK, IsHeld
  <2>2. Owning'
    BY <1>3 DEF Claim, Owning, TypeOK
  <2>3. QED
    BY <2>1, <2>2
<1>4. ASSUME NEW j \in Jobs, Release(w, j) PROVE (ClaimIsFence /\ Owning)'
  <2>1. \A v \in Workers \ {w} : held[v][j] = 0
    BY <1>4, RowIsOwn DEF Release
  <2>2. ClaimIsFence'
    BY <1>4, <2>1 DEF Release, LetGo, FailRetry, Unlocked, ClaimIsFence, TypeOK
  <2>3. Owning'
    BY <1>4 DEF Release, LetGo, Owning, TypeOK
  <2>4. QED
    BY <2>2, <2>3
<1>5. ASSUME NEW j \in Jobs, Dispatch(w, j) PROVE (ClaimIsFence /\ Owning)'
  BY <1>5 DEF Dispatch, ClaimIsFence, Owning, TypeOK
<1>6. ASSUME NEW result \in Outcome, DispatchReturns(w, result)
      PROVE  (ClaimIsFence /\ Owning)'
  BY <1>6 DEF DispatchReturns, ClaimIsFence, Owning, TypeOK
<1>7. CASE Report(w)
  <2> DEFINE j == current[w]
  <2>1. j \in Jobs /\ j \in HeldBy(w)
    BY <1>7 DEF Report, Owning, TypeOK
  <2>2. \A v \in Workers \ {w} : held[v][j] = 0
    BY <2>1, RowIsOwn
  <2>3. Complete(j) \/ FailDead(j) \/ FailRetry(j)
    BY <1>7 DEF Report, Record
  <2>4. ClaimIsFence'
    BY <1>7, <2>1, <2>2, <2>3
    DEF Report, EndOfJob, LetGo, Complete, FailDead, FailRetry, Unlocked, ClaimIsFence, TypeOK
  <2>5. Owning'
    BY <1>7 DEF Report, EndOfJob, LetGo, Owning, TypeOK
  <2>6. QED
    BY <2>4, <2>5
<1>8. QED
  BY <1>1, <1>2, <1>3, <1>4, <1>5, <1>6, <1>7 DEF WorkerStep

\* The faults other than a lock that ages under its worker do, too.
LEMMA WorkerFaultOwner ==
    ASSUME ~SlowBatches, OwnerInv, TypeOK', NEW w \in Workers, WorkerFault(w)
    PROVE  (ClaimIsFence /\ Owning)'
<1> USE DEF OwnerInv, HeldBy, Goto, table, local, past
<1>1. CASE ClaimFails(w)
  <2>1. CASE ClaimRows(w, Batch)
    <3>1. ClaimIsFence'
      BY <1>1, <2>1, BatchIsFree DEF ClaimFails, ClaimRows, ClaimIsFence, TypeOK, IsHeld
    <3>2. Owning'
      BY <1>1 DEF ClaimFails, Owning, TypeOK
    <3>3. QED
      BY <3>1, <3>2
  <2>2. CASE UNCHANGED table
    BY <1>1, <2>2 DEF ClaimFails, ClaimIsFence, Owning, TypeOK
  <2>3. QED
    BY <1>1, <2>1, <2>2 DEF ClaimFails
<1>2. CASE ReportFails(w)
  BY <1>2 DEF ReportFails, EndOfJob, LetGo, ClaimIsFence, Owning, TypeOK
<1>3. CASE Trigger(w)
  BY <1>3 DEF Trigger, ClaimIsFence, Owning, TypeOK
<1>4. CASE Crash(w)
  BY <1>4 DEF Crash, ClaimIsFence, Owning, TypeOK
<1>5. ASSUME NEW j \in Jobs PROVE ~LockAgesInBatch(w, j)
  BY DEF LockAgesInBatch
<1>6. ASSUME NEW j \in Jobs, ReleaseFails(w, j) PROVE (ClaimIsFence /\ Owning)'
  BY <1>6 DEF ReleaseFails, LetGo, ClaimIsFence, Owning, TypeOK
<1>7. QED
  BY <1>1, <1>2, <1>3, <1>4, <1>5, <1>6 DEF WorkerFault

\* And the environment never touches a row that is held.
LEMMA EnvironmentOwner ==
    ASSUME OwnerInv, TypeOK', Environment
    PROVE  (ClaimIsFence /\ Owning)'
<1> USE DEF OwnerInv, HeldBy, Goto, table, local, past
<1>1. ASSUME NEW j \in Jobs, NEW delayed \in BOOLEAN, Enqueue(j, delayed)
      PROVE  (ClaimIsFence /\ Owning)'
  BY <1>1 DEF Enqueue, ClaimIsFence, Owning, TypeOK
<1>2. ASSUME NEW j \in Jobs, RunAtReached(j) \/ Sweep(j)
      PROVE  (ClaimIsFence /\ Owning)'
  BY <1>2 DEF RunAtReached, Sweep, ClaimIsFence, Owning, TypeOK
<1>3. ASSUME NEW j \in Jobs, LockAges(j) PROVE (ClaimIsFence /\ Owning)'
  BY <1>3 DEF LockAges, IsHeld, ClaimIsFence, Owning, TypeOK
<1>4. CASE NotifyWaiters
  BY <1>4 DEF NotifyWaiters, ClaimIsFence, Owning, TypeOK
<1>5. CASE NotifyLost
  BY <1>5 DEF NotifyLost, ClaimIsFence, Owning, TypeOK
<1>6. QED
  BY <1>1, <1>2, <1>3, <1>4, <1>5 DEF Environment

\* The whole invariant, step by step.
LEMMA OwnerStep ==
    ASSUME ~SlowBatches, OwnerInv, TypeOK', [Next]_vars
    PROVE  OwnerInv'
<1>1. ASSUME NEW w \in Workers, Restart(w) PROVE (ClaimIsFence /\ Owning)'
  BY <1>1 DEF OwnerInv, HeldBy, Restart, Goto, table, past, ClaimIsFence, Owning, TypeOK
<1>2. CASE UNCHANGED vars
  BY <1>2 DEF OwnerInv, HeldBy, vars, table, local, ClaimIsFence, Owning
<1>3. QED
  BY <1>1, <1>2, WorkerStepOwner, WorkerFaultOwner, EnvironmentOwner DEF Next, OwnerInv

LEMMA OwnerCorrect == ASSUME ~SlowBatches PROVE Spec => []OwnerInv
<1>1. Init => ClaimIsFence /\ Owning
  BY DEF Init, ClaimIsFence, Owning
<1>2. QED
  BY <1>1, TypeCorrect, OwnerStep, PTL DEF Spec, OwnerInv

\* If every batch ends before its lock is old, a worker that holds a job is
\* its only owner until it reports, through crashes, lost replies, shutdowns
\* and reaps: the statements that update a row by id alone hit the right claim.
THEOREM ClaimsAreFenced == ASSUME ~SlowBatches PROVE Spec => []ClaimIsFence
BY OwnerCorrect, PTL DEF OwnerInv

\* And no two workers ever carry out the same job at the same time.
THEOREM JobsRunAlone == ASSUME ~SlowBatches PROVE Spec => []NoDoubleProcessing
<1>1. OwnerInv => NoDoubleProcessing
  BY DEF OwnerInv, ClaimIsFence, Owning, NoDoubleProcessing, HeldBy, TypeOK
<1>2. QED
  BY <1>1, OwnerCorrect, PTL

-----------------------------------------------------------------------------
(* The queue implements the lifecycle of its migration                     *)

\* A worker that is about to report Ok has carried the job out.
OkWasServed == \A w \in Workers :
    pc[w] = "report" /\ outcome[w] = "ok" => current[w] \in served

LEMMA OkWasServedStep ==
    ASSUME TypeOK, OkWasServed, [Next]_vars
    PROVE  OkWasServed'
<1> USE DEF OkWasServed, TypeOK, Goto, table, local, past
<1>1. ASSUME NEW w \in Workers, WorkerStep(w) PROVE OkWasServed'
  <2>1. CASE StopAtTop(w) \/ Reap(w) \/ SkipReap(w) \/ Claim(w) \/ Poll(w) \/ StopWaiting(w)
    BY <2>1 DEF StopAtTop, Reap, SkipReap, Claim, Poll, StopWaiting
  <2>2. ASSUME NEW j \in Jobs, Release(w, j) \/ Dispatch(w, j) PROVE OkWasServed'
    BY <2>2 DEF Release, Dispatch, LetGo
  <2>3. ASSUME NEW result \in Outcome, DispatchReturns(w, result) PROVE OkWasServed'
    BY <2>3 DEF DispatchReturns
  <2>4. CASE Report(w)
    BY <2>4 DEF Report, EndOfJob, LetGo
  <2>5. QED
    BY <1>1, <2>1, <2>2, <2>3, <2>4 DEF WorkerStep
<1>2. ASSUME NEW w \in Workers, WorkerFault(w) PROVE OkWasServed'
  <2>1. CASE ClaimFails(w) \/ ReportFails(w) \/ Trigger(w) \/ Crash(w)
    BY <2>1 DEF ClaimFails, ReportFails, EndOfJob, LetGo, Trigger, Crash
  <2>2. ASSUME NEW j \in Jobs, ReleaseFails(w, j) \/ LockAgesInBatch(w, j)
      PROVE  OkWasServed'
    BY <2>2 DEF ReleaseFails, LetGo, LockAgesInBatch
  <2>3. QED
    BY <1>2, <2>1, <2>2 DEF WorkerFault
<1>3. ASSUME NEW w \in Workers, Restart(w) PROVE OkWasServed'
  BY <1>3 DEF Restart
<1>4. CASE Environment
  <2>1. CASE NotifyWaiters
    BY <2>1 DEF NotifyWaiters
  <2>2. ASSUME UNCHANGED <<local, past>> PROVE OkWasServed'
    BY <2>2
  <2>3. QED
    BY <1>4, <2>1, <2>2 DEF Environment, Enqueue, RunAtReached, LockAges, Sweep, NotifyLost
<1>5. CASE UNCHANGED vars
  BY <1>5 DEF vars
<1>6. QED
  BY <1>1, <1>2, <1>3, <1>4, <1>5 DEF Next

LEMMA OkWasServedCorrect == Spec => []OkWasServed
<1>1. Init => OkWasServed
  BY DEF Init, OkWasServed
<1>2. QED
  BY <1>1, TypeCorrect, OkWasServedStep, PTL DEF Spec

\* One step of a worker is one step of the lifecycle, or none.
LEMMA WorkerStepRefines ==
    ASSUME OwnerInv, OkWasServed, NEW w \in Workers, WorkerStep(w)
    PROVE  [Lifecycle!Next]_(Lifecycle!vars)
<1> USE DEF OwnerInv, TypeOK, Lifecycle!Next, Lifecycle!vars, Lifecycle!Move, table, past, HeldBy
<1>1. CASE StopAtTop(w) \/ SkipReap(w) \/ Poll(w) \/ StopWaiting(w)
  BY <1>1 DEF StopAtTop, SkipReap, Poll, StopWaiting
<1>2. CASE Reap(w)
  <2>1. Lifecycle!Return(Stuck) /\ Stuck \in SUBSET Jobs
    BY <1>2 DEF Reap, ReapStuck, Stuck, Lifecycle!Return
  <2>2. QED
    BY <2>1
<1>3. CASE Claim(w)
  <2>1. Lifecycle!Start(Batch) /\ Batch \in SUBSET Jobs
    BY <1>3, BatchIsFree DEF Claim, ClaimRows, Lifecycle!Start
  <2>2. QED
    BY <2>1
<1>4. ASSUME NEW j \in Jobs, Release(w, j) PROVE [Lifecycle!Next]_(Lifecycle!vars)
  <2>1. status[j] = "in_progress" /\ served' = served
    BY <1>4 DEF Release, ClaimIsFence
  <2>2. status' = [k \in Jobs |-> IF k \in {j} THEN "pending" ELSE status[k]]
    BY <1>4 DEF Release, FailRetry
  <2>3. Lifecycle!Return({j})
    BY <2>1, <2>2 DEF Lifecycle!Return
  <2>4. QED
    BY <2>3
<1>5. ASSUME NEW j \in Jobs, Dispatch(w, j) PROVE [Lifecycle!Next]_(Lifecycle!vars)
  BY <1>5 DEF Dispatch
<1>6. ASSUME NEW result \in Outcome, DispatchReturns(w, result)
      PROVE  [Lifecycle!Next]_(Lifecycle!vars)
  <2>1. current[w] \in Jobs /\ status[current[w]] = "in_progress"
    BY <1>6 DEF DispatchReturns, Owning, ClaimIsFence
  <2>2. CASE result = "ok"
    <3>1. Lifecycle!Serve(current[w])
      BY <1>6, <2>1, <2>2 DEF DispatchReturns, Lifecycle!Serve
    <3>2. QED
      BY <2>1, <3>1
  <2>3. CASE result # "ok"
    BY <1>6, <2>3 DEF DispatchReturns
  <2>4. QED
    BY <2>2, <2>3
<1>7. CASE Report(w)
  <2> DEFINE j == current[w]
  <2>1. j \in Jobs /\ status[j] = "in_progress"
    BY <1>7 DEF Report, Owning, ClaimIsFence
  <2>2. served' = served
    BY <1>7 DEF Report
  <2>3. CASE outcome[w] = "ok" /\ Complete(j)
    <3>1. Lifecycle!Finish(j)
      BY <1>7, <2>1, <2>2, <2>3 DEF Report, OkWasServed, Complete, Lifecycle!Finish
    <3>2. QED
      BY <2>1, <3>1
  <2>4. CASE FailDead(j)
    <3>1. Lifecycle!Bury(j)
      BY <2>1, <2>2, <2>4 DEF FailDead, Lifecycle!Bury
    <3>2. QED
      BY <2>1, <3>1
  <2>5. CASE FailRetry(j)
    <3>1. Lifecycle!Return({j})
      <4>1. status' = [k \in Jobs |-> IF k \in {j} THEN "pending" ELSE status[k]]
        BY <2>1, <2>5 DEF FailRetry
      <4>2. QED
        BY <2>1, <2>2, <4>1 DEF Lifecycle!Return
    <3>2. QED
      BY <2>1, <3>1
  <2>6. QED
    BY <1>7, <2>3, <2>4, <2>5 DEF Report, Record
<1>8. QED
  BY <1>1, <1>2, <1>3, <1>4, <1>5, <1>6, <1>7 DEF WorkerStep

\* The queue implements the lifecycle when no batch outlives its lock:
\* rows only go pending -> in_progress -> (completed | pending | dead), they
\* are completed only after a dispatch returned Ok, and swept only at an end.
THEOREM QueueKeepsLifecycle == ASSUME ~SlowBatches PROVE Spec => LifecycleSpec
<1> USE DEF Lifecycle!Next, Lifecycle!vars, Lifecycle!Move, table, past, TypeOK
<1>1. Init => Lifecycle!Init
  BY DEF Init, Lifecycle!Init
<1>2. OwnerInv /\ OkWasServed /\ [Next]_vars => [Lifecycle!Next]_(Lifecycle!vars)
  <2> SUFFICES ASSUME OwnerInv, OkWasServed, [Next]_vars
               PROVE  [Lifecycle!Next]_(Lifecycle!vars)
    OBVIOUS
  <2>1. ASSUME NEW w \in Workers, WorkerStep(w) PROVE [Lifecycle!Next]_(Lifecycle!vars)
    BY <2>1, WorkerStepRefines
  <2>2. ASSUME NEW w \in Workers, ClaimFails(w) PROVE [Lifecycle!Next]_(Lifecycle!vars)
    <3>1. CASE ClaimRows(w, Batch)
      <4>1. Lifecycle!Start(Batch) /\ Batch \in SUBSET Jobs
        BY <2>2, <3>1, BatchIsFree DEF OwnerInv, ClaimFails, ClaimRows, Lifecycle!Start
      <4>2. QED
        BY <4>1
    <3>2. CASE UNCHANGED table
      BY <2>2, <3>2 DEF ClaimFails
    <3>3. QED
      BY <2>2, <3>1, <3>2 DEF ClaimFails
  <2>3. ASSUME NEW w \in Workers, ReportFails(w) \/ Trigger(w) \/ Crash(w) \/ Restart(w)
        PROVE  [Lifecycle!Next]_(Lifecycle!vars)
    BY <2>3 DEF ReportFails, Trigger, Crash, Restart
  <2>4. ASSUME NEW w \in Workers, NEW j \in Jobs
        PROVE  /\ ~LockAgesInBatch(w, j)
               /\ ReleaseFails(w, j) => [Lifecycle!Next]_(Lifecycle!vars)
    BY DEF LockAgesInBatch, ReleaseFails
  <2>5. ASSUME NEW j \in Jobs, NEW delayed \in BOOLEAN, Enqueue(j, delayed)
        PROVE  [Lifecycle!Next]_(Lifecycle!vars)
    <3>1. Lifecycle!Submit(j)
      BY <2>5 DEF OwnerInv, Enqueue, Lifecycle!Submit
    <3>2. QED
      BY <3>1
  <2>6. ASSUME NEW j \in Jobs, Sweep(j) PROVE [Lifecycle!Next]_(Lifecycle!vars)
    <3>1. Lifecycle!Purge(j)
      BY <2>6 DEF OwnerInv, Sweep, Lifecycle!Purge, Lifecycle!Ended
    <3>2. QED
      BY <3>1
  <2>7. ASSUME NEW j \in Jobs, RunAtReached(j) \/ LockAges(j)
        PROVE  [Lifecycle!Next]_(Lifecycle!vars)
    BY <2>7 DEF RunAtReached, LockAges
  <2>8. CASE NotifyWaiters \/ NotifyLost \/ UNCHANGED vars
    BY <2>8 DEF NotifyWaiters, NotifyLost, vars
  <2>9. QED
    BY <2>1, <2>2, <2>3, <2>4, <2>5, <2>6, <2>7, <2>8 DEF Next, WorkerFault, Environment
<1>3. QED
  BY <1>1, <1>2, OwnerCorrect, OkWasServedCorrect, PTL DEF Spec, Lifecycle!Spec, LifecycleSpec

-----------------------------------------------------------------------------
(* Attempts tell claims apart                                              *)

\* Claiming counts every claimed row up, and no other.
LEMMA ClaimRowsCounts ==
    ASSUME TypeOK, NEW w \in Workers, ClaimRows(w, Batch), NEW j \in Jobs
    PROVE  attempts'[j] = IF j \in Batch THEN attempts[j] + 1 ELSE attempts[j]
BY DEF ClaimRows, TypeOK

\* A step that counts no attempt and gives no job to anybody is harmless.
LEMMA KeepsClaims ==
    ASSUME TypeOK, AttemptsIdentifyClaim, attempts' = attempts,
           \A w \in Workers, j \in Jobs : held'[w][j] \in {0, held[w][j]}
    PROVE  AttemptsIdentifyClaim'
<1>1. \A w \in Workers, j \in Jobs : attempts[j] \in Nat /\ held[w][j] \in Nat
  BY DEF TypeOK
<1>2. ASSUME NEW w \in Workers, NEW j \in Jobs
      PROVE  /\ held'[w][j] <= attempts'[j]
             /\ \A v \in Workers \ {w} : held'[w][j] > 0 => held'[v][j] # held'[w][j]
  <2>1. held[w][j] <= attempts[j]
    BY <1>2 DEF AttemptsIdentifyClaim
  <2>2. ASSUME NEW v \in Workers \ {w}, held'[w][j] > 0 PROVE held'[v][j] # held'[w][j]
    <3>1. held'[w][j] = held[w][j] /\ held[w][j] > 0
      BY <2>2, <1>1, <1>2
    <3>2. held[v][j] # held[w][j]
      BY <3>1, <2>2, <1>2 DEF AttemptsIdentifyClaim
    <3>3. held'[v][j] \in {0, held[v][j]}
      BY <2>2
    <3>4. QED
      BY <3>1, <3>2, <3>3, <1>1, <1>2
  <2>3. held'[w][j] \in {0, held[w][j]}
    BY <1>2
  <2>4. QED
    BY <2>1, <2>2, <2>3, <1>1, <1>2
<1>3. QED
  BY <1>2 DEF AttemptsIdentifyClaim

\* Each step keeps the claims of a job apart.
LEMMA ClaimsStep ==
    ASSUME TypeOK, AttemptsIdentifyClaim, [Next]_vars
    PROVE  AttemptsIdentifyClaim'
<1> USE DEF Goto, table, local, past
<1>0. \A w \in Workers, j \in Jobs : attempts[j] \in Nat /\ held[w][j] \in Nat
  BY DEF TypeOK
<1>1. ASSUME NEW w \in Workers, Claim(w) PROVE AttemptsIdentifyClaim'
  <2>1. \A j \in Jobs : attempts'[j] = IF j \in Batch THEN attempts[j] + 1 ELSE attempts[j]
    BY <1>1, ClaimRowsCounts DEF Claim
  <2>2. \A v \in Workers, j \in Jobs :
            held'[v][j] = IF v # w THEN held[v][j]
                          ELSE IF j \in Batch THEN attempts[j] + 1 ELSE 0
    BY <1>1 DEF Claim, TypeOK
  <2>3. ASSUME NEW v \in Workers, NEW j \in Jobs
        PROVE  /\ held'[v][j] <= attempts'[j]
               /\ \A u \in Workers \ {v} : held'[v][j] > 0 => held'[u][j] # held'[v][j]
    <3>1. \A u \in Workers : held[u][j] <= attempts[j]
      BY <2>3 DEF AttemptsIdentifyClaim
    <3>2. \A u \in Workers \ {v} : held[v][j] > 0 => held[u][j] # held[v][j]
      BY <2>3 DEF AttemptsIdentifyClaim
    <3>3. QED
      BY <1>0, <2>1, <2>2, <3>1, <3>2
  <2>4. QED
    BY <2>3 DEF AttemptsIdentifyClaim
<1>2. ASSUME NEW w \in Workers, ClaimFails(w) PROVE AttemptsIdentifyClaim'
  <2>1. \A j \in Jobs : attempts'[j] \in {attempts[j], attempts[j] + 1}
    BY <1>2, ClaimRowsCounts DEF ClaimFails
  <2>2. held' = held
    BY <1>2 DEF ClaimFails
  <2>3. ASSUME NEW v \in Workers, NEW j \in Jobs PROVE held[v][j] <= attempts'[j]
    <3>1. held[v][j] <= attempts[j]
      BY <2>3 DEF AttemptsIdentifyClaim
    <3>2. QED
      BY <1>0, <2>1, <2>3, <3>1
  <2>4. QED
    BY <2>2, <2>3 DEF AttemptsIdentifyClaim
<1>3. ASSUME NEW w \in Workers, Report(w) \/ ReportFails(w) PROVE AttemptsIdentifyClaim'
  <2>1. attempts' = attempts
    BY <1>3 DEF Report, ReportFails, Record, Complete, FailDead, FailRetry
  <2>2. held' = [held EXCEPT ![w][current[w]] = 0]
    BY <1>3 DEF Report, ReportFails, EndOfJob, LetGo
  <2>3. \A v \in Workers, j \in Jobs : held'[v][j] \in {0, held[v][j]}
    BY <2>2 DEF TypeOK
  <2>4. QED
    BY <2>1, <2>3, KeepsClaims
<1>4. ASSUME NEW w \in Workers, NEW j \in Jobs, Release(w, j) \/ ReleaseFails(w, j)
      PROVE  AttemptsIdentifyClaim'
  <2>1. attempts' = attempts
    BY <1>4 DEF Release, ReleaseFails, FailRetry
  <2>2. held' = [held EXCEPT ![w][j] = 0]
    BY <1>4 DEF Release, ReleaseFails, LetGo
  <2>3. \A v \in Workers, k \in Jobs : held'[v][k] \in {0, held[v][k]}
    BY <2>2 DEF TypeOK
  <2>4. QED
    BY <2>1, <2>3, KeepsClaims
<1>5. ASSUME NEW w \in Workers, Crash(w) PROVE AttemptsIdentifyClaim'
  <2>1. \A v \in Workers, k \in Jobs : held'[v][k] \in {0, held[v][k]}
    BY <1>5 DEF Crash, TypeOK
  <2>2. attempts' = attempts
    BY <1>5 DEF Crash
  <2>3. QED
    BY <2>1, <2>2, KeepsClaims
<1>6. ASSUME UNCHANGED <<attempts, held>> PROVE AttemptsIdentifyClaim'
  BY <1>6 DEF AttemptsIdentifyClaim
<1>7. ASSUME NEW w \in Workers, WorkerStep(w) PROVE AttemptsIdentifyClaim'
  BY <1>1, <1>3, <1>4, <1>6, <1>7
  DEF WorkerStep, StopAtTop, Reap, ReapStuck, SkipReap, Poll, StopWaiting, Dispatch,
      DispatchReturns
<1>8. ASSUME NEW w \in Workers, WorkerFault(w) PROVE AttemptsIdentifyClaim'
  BY <1>2, <1>3, <1>4, <1>5, <1>6, <1>8 DEF WorkerFault, Trigger, LockAgesInBatch
<1>9. CASE Environment
  BY <1>6, <1>9 DEF Environment, Enqueue, RunAtReached, LockAges, Sweep, NotifyWaiters, NotifyLost
<1>10. QED
  BY <1>6, <1>7, <1>8, <1>9 DEF Next, Restart, vars

\* Whatever the reaper, the crashes and the slow batches do, no two workers
\* hold a job at the same attempt: `attempts` is a fencing token of which the
\* statements that end a job make no use.
THEOREM ClaimsAreTellable == Spec => []AttemptsIdentifyClaim
<1>1. Init => AttemptsIdentifyClaim
  BY DEF Init, AttemptsIdentifyClaim
<1>2. QED
  BY <1>1, TypeCorrect, ClaimsStep, PTL DEF Spec

-----------------------------------------------------------------------------
(* Each attempt beyond the maximum is charged to a fault                   *)

\* Shutdown messages that a worker may yet spend on the release of a job.
Signalled == {w \in Workers : signal[w] = "sent"}

\* The attempts at which a worker may yet put j back: those to come, and those
\* that some worker holds, be it the owner of the row or not.
Retries(j) ==
    {n \in 1..(MaxAttempts - 1) : n > attempts[j] \/ \E w \in Workers : held[w][j] = n}

\* j is in the queue, or the reaper will put it back.
Queued(j) == \/ status[j] \in {"absent", "pending"}
             \/ status[j] = "in_progress" /\ (lock_old[j] \/ ~IsHeld(j))

Place(j) == IF Queued(j) THEN 1 ELSE 0

\* What has been claimed, and whatever may still put j back in the queue.
Budgeted(j) ==
    attempts[j] + Cardinality(Signalled) + Cardinality(Retries(j)) + Place(j)
        <= MaxAttempts + faults

\* Who is outside its batch holds nothing.
EmptyHanded == \A w \in Workers :
    pc[w] \in {"top", "claim", "idle", "pause", "down"} => HeldBy(w) = {}

Charged   == IsFiniteSet(Signalled) /\ \A j \in Jobs : Budgeted(j)
BudgetInv == TypeOK /\ AttemptsIdentifyClaim /\ EmptyHanded /\ Owning /\ Charged

LEMMA RetriesFinite ==
    ASSUME NEW j \in Jobs
    PROVE  IsFiniteSet(Retries(j)) /\ Cardinality(Retries(j)) \in Nat
<1>1. IsFiniteSet(1..(MaxAttempts - 1))
  BY FS_Interval, MaxAttemptsAssumption
<1>2. Retries(j) \subseteq 1..(MaxAttempts - 1)
  BY DEF Retries
<1>3. QED
  BY <1>1, <1>2, FS_Subset, FS_CardinalityType

LEMMA FewerRetries ==
    ASSUME NEW j \in Jobs, Retries(j)' \subseteq Retries(j)
    PROVE  /\ Cardinality(Retries(j)') \in Nat
           /\ Cardinality(Retries(j)') <= Cardinality(Retries(j))
           /\ \A n \in Retries(j) \ Retries(j)' :
                 Cardinality(Retries(j)') <= Cardinality(Retries(j)) - 1
<1>1. IsFiniteSet(Retries(j)) /\ Cardinality(Retries(j)) \in Nat
  BY RetriesFinite
<1>2. /\ IsFiniteSet(Retries(j)') /\ Cardinality(Retries(j)') \in Nat
      /\ Cardinality(Retries(j)') <= Cardinality(Retries(j))
  BY <1>1, FS_Subset, FS_CardinalityType
<1>3. ASSUME NEW n \in Retries(j) \ Retries(j)'
      PROVE  Cardinality(Retries(j)') <= Cardinality(Retries(j)) - 1
  <2>1. Retries(j)' \subseteq Retries(j) \ {n}
    BY <1>3
  <2>2. /\ IsFiniteSet(Retries(j) \ {n})
        /\ Cardinality(Retries(j) \ {n}) = Cardinality(Retries(j)) - 1
    BY <1>1, <1>3, FS_RemoveElement
  <2>3. QED
    BY <2>1, <2>2, FS_Subset
<1>4. QED
  BY <1>2, <1>3

LEMMA FewerSignals ==
    ASSUME IsFiniteSet(Signalled), Signalled' \subseteq Signalled
    PROVE  /\ IsFiniteSet(Signalled') /\ Cardinality(Signalled) \in Nat
           /\ Cardinality(Signalled') \in Nat
           /\ Cardinality(Signalled') <= Cardinality(Signalled)
           /\ Signalled \ Signalled' # {} =>
                 Cardinality(Signalled') <= Cardinality(Signalled) - 1
<1>1. /\ IsFiniteSet(Signalled') /\ Cardinality(Signalled) \in Nat
      /\ Cardinality(Signalled') \in Nat
      /\ Cardinality(Signalled') <= Cardinality(Signalled)
  BY FS_Subset, FS_CardinalityType
<1>2. ASSUME NEW w \in Signalled \ Signalled'
      PROVE  Cardinality(Signalled') <= Cardinality(Signalled) - 1
  <2>1. Signalled' \subseteq Signalled \ {w}
    BY <1>2
  <2>2. /\ IsFiniteSet(Signalled \ {w})
        /\ Cardinality(Signalled \ {w}) = Cardinality(Signalled) - 1
    BY <1>2, FS_RemoveElement
  <2>3. QED
    BY <2>1, <2>2, FS_Subset
<1>3. QED
  BY <1>1, <1>2

\* Who lets go of a job gives up a retry.
LEMMA LetGoRetries ==
    ASSUME NEW j \in Jobs, attempts'[j] = attempts[j],
           \A w \in Workers : held'[w][j] \in {0, held[w][j]}
    PROVE  Retries(j)' \subseteq Retries(j)
BY DEF Retries

\* A step that counts no attempt is free as long as it puts nothing back; to put
\* the job back costs a fault, a retry, or a shutdown message.
LEMMA JobKeepsBudget ==
    ASSUME TypeOK, TypeOK', NEW j \in Jobs, Budgeted(j),
           IsFiniteSet(Signalled), Signalled' \subseteq Signalled,
           attempts'[j] = attempts[j], \A w \in Workers : held'[w][j] \in {0, held[w][j]},
           \/ faults' = faults /\ (Queued(j)' => Queued(j))
           \/ faults' = faults + 1
           \/ faults' = faults /\ Retries(j) \ Retries(j)' # {}
           \/ faults' = faults /\ Signalled \ Signalled' # {}
    PROVE  Budgeted(j)'
<1>1. /\ Cardinality(Signalled) \in Nat /\ Cardinality(Signalled') \in Nat
      /\ Cardinality(Signalled') <= Cardinality(Signalled)
      /\ Signalled \ Signalled' # {} => Cardinality(Signalled') <= Cardinality(Signalled) - 1
  BY FewerSignals
<1>2. /\ Cardinality(Retries(j)') \in Nat /\ Cardinality(Retries(j)) \in Nat
      /\ Cardinality(Retries(j)') <= Cardinality(Retries(j))
      /\ Retries(j) \ Retries(j)' # {} => Cardinality(Retries(j)') <= Cardinality(Retries(j)) - 1
  BY LetGoRetries, FewerRetries, RetriesFinite
<1>3. /\ Place(j) \in {0, 1} /\ Place(j)' \in {0, 1}
      /\ (Queued(j)' => Queued(j)) => Place(j)' <= Place(j)
  BY DEF Place
<1>4. attempts[j] \in Nat /\ faults \in Nat /\ MaxAttempts \in Nat
  BY MaxAttemptsAssumption DEF TypeOK
<1>5. attempts[j] + Cardinality(Signalled) + Cardinality(Retries(j)) + Place(j)
          <= MaxAttempts + faults
  BY DEF Budgeted
<1>6. attempts'[j] + Cardinality(Signalled') + Cardinality(Retries(j)') + Place(j)'
          <= MaxAttempts + faults'
  BY <1>1, <1>2, <1>3, <1>4, <1>5
<1>7. QED
  BY <1>6 DEF Budgeted

LEMMA KeepsBudget ==
    ASSUME TypeOK, TypeOK', Charged, attempts' = attempts, Signalled' \subseteq Signalled,
           \A w \in Workers, j \in Jobs : held'[w][j] \in {0, held[w][j]},
           \/ faults' = faults /\ \A j \in Jobs : Queued(j)' => Queued(j)
           \/ faults' = faults + 1
           \/ faults' = faults /\ Signalled \ Signalled' # {}
    PROVE  Charged'
<1>1. IsFiniteSet(Signalled')
  BY FewerSignals DEF Charged
<1>2. ASSUME NEW j \in Jobs PROVE Budgeted(j)'
  BY JobKeepsBudget DEF Charged
<1>3. QED
  BY <1>1, <1>2 DEF Charged

\* A claim takes the job out of the queue, and holds it at the new attempt.
LEMMA ClaimCharged ==
    ASSUME BudgetInv, TypeOK', NEW w \in Workers, Claim(w)
    PROVE  Charged'
<1>1. Signalled' = Signalled /\ faults' = faults /\ IsFiniteSet(Signalled)
  BY DEF Claim, Signalled, BudgetInv, Charged
<1>2. \A v \in Workers, j \in Jobs :
          /\ held[w][j] = 0
          /\ held'[v][j] = IF v # w THEN held[v][j]
                           ELSE IF j \in Batch THEN attempts[j] + 1 ELSE 0
  BY DEF Claim, BudgetInv, EmptyHanded, HeldBy, TypeOK
<1>3. ASSUME NEW j \in Jobs PROVE Budgeted(j)'
  <2>1. /\ attempts[j] \in Nat /\ faults \in Nat /\ MaxAttempts \in Nat
        /\ Cardinality(Signalled) \in Nat
    BY <1>1, MaxAttemptsAssumption, FS_CardinalityType DEF BudgetInv, TypeOK
  <2>2. attempts'[j] = IF j \in Batch THEN attempts[j] + 1 ELSE attempts[j]
    BY ClaimRowsCounts DEF Claim, BudgetInv
  <2>3. Retries(j)' \subseteq Retries(j)
    <3>1. SUFFICES ASSUME NEW n \in Retries(j)' PROVE n \in Retries(j)
      OBVIOUS
    <3>2. n \in 1..(MaxAttempts - 1) /\ (n > attempts'[j] \/ \E v \in Workers : held'[v][j] = n)
      BY <3>1 DEF Retries
    <3>3. n > attempts[j] \/ \E v \in Workers : held[v][j] = n
      BY <3>2, <1>2, <2>1, <2>2, MaxAttemptsAssumption
    <3>4. QED
      BY <3>2, <3>3 DEF Retries
  <2>4. /\ Cardinality(Retries(j)') \in Nat /\ Cardinality(Retries(j)) \in Nat
        /\ Cardinality(Retries(j)') <= Cardinality(Retries(j))
    BY <2>3, FewerRetries, RetriesFinite
  <2>5. attempts[j] + Cardinality(Signalled) + Cardinality(Retries(j)) + Place(j)
            <= MaxAttempts + faults
    BY DEF BudgetInv, Charged, Budgeted
  <2>6. CASE j \in Batch
    <3>1. Queued(j) /\ ~Queued(j)'
      <4>1. status[j] = "pending" /\ status'[j] = "in_progress" /\ lock_old'[j] = FALSE
        BY <2>6 DEF Batch, Eligible, Claim, ClaimRows
      <4>2. held'[w][j] > 0
        BY <1>2, <2>1, <2>6
      <4>3. QED
        BY <4>1, <4>2 DEF Queued, IsHeld
    <3>2. QED
      BY <1>1, <2>1, <2>2, <2>4, <2>5, <2>6, <3>1 DEF Budgeted, Place
  <2>7. CASE j \notin Batch
    <3>1. status'[j] = status[j] /\ lock_old'[j] = lock_old[j]
      BY <2>7 DEF Claim, ClaimRows
    <3>2. IsHeld(j)' <=> IsHeld(j)
      BY <1>2, <2>7 DEF IsHeld
    <3>3. Place(j)' = Place(j) /\ Place(j) \in {0, 1}
      BY <3>1, <3>2 DEF Queued, Place
    <3>4. QED
      BY <1>1, <2>1, <2>2, <2>4, <2>5, <2>7, <3>3 DEF Budgeted
  <2>8. QED
    BY <2>6, <2>7
<1>4. QED
  BY <1>1, <1>3 DEF Charged

\* A claim whose reply is lost has counted, and nobody holds what it took.
LEMMA ClaimFailsCharged ==
    ASSUME BudgetInv, TypeOK', NEW w \in Workers, ClaimFails(w)
    PROVE  Charged'
<1>1. /\ Signalled' = Signalled /\ faults' = faults + 1 /\ IsFiniteSet(Signalled) /\ held' = held
  BY DEF ClaimFails, Fault, Signalled, BudgetInv, Charged
<1>2. CASE UNCHANGED table
  <2>1. \A v \in Workers, j \in Jobs : held'[v][j] \in {0, held[v][j]}
    BY <1>1
  <2>2. QED
    BY <1>1, <1>2, <2>1, KeepsBudget DEF table, BudgetInv
<1>3. ASSUME ClaimRows(w, Batch), NEW j \in Jobs PROVE Budgeted(j)'
  <2>1. /\ attempts[j] \in Nat /\ faults \in Nat /\ MaxAttempts \in Nat
        /\ Cardinality(Signalled) \in Nat
    BY <1>1, MaxAttemptsAssumption, FS_CardinalityType DEF BudgetInv, TypeOK
  <2>2. attempts'[j] = IF j \in Batch THEN attempts[j] + 1 ELSE attempts[j]
    BY <1>3, ClaimRowsCounts DEF BudgetInv
  <2>3. Retries(j)' \subseteq Retries(j)
    BY <1>1, <2>1, <2>2, MaxAttemptsAssumption DEF Retries
  <2>4. /\ Cardinality(Retries(j)') \in Nat /\ Cardinality(Retries(j)) \in Nat
        /\ Cardinality(Retries(j)') <= Cardinality(Retries(j))
    BY <2>3, FewerRetries, RetriesFinite
  <2>5. attempts[j] + Cardinality(Signalled) + Cardinality(Retries(j)) + Place(j)
            <= MaxAttempts + faults
    BY DEF BudgetInv, Charged, Budgeted
  <2>6. j \in Batch => Place(j) = 1
    BY DEF Batch, Eligible, Queued, Place
  <2>7. Place(j) \in {0, 1} /\ Place(j)' \in {0, 1}
    BY DEF Place
  <2>8. QED
    BY <1>1, <2>1, <2>2, <2>4, <2>5, <2>6, <2>7 DEF Budgeted
<1>4. QED
  BY <1>1, <1>2, <1>3 DEF ClaimFails, Charged

\* The end of a job takes it out of the queue, or puts it back for an attempt
\* that nobody else holds and nobody will hold again.
LEMMA ReportCharged ==
    ASSUME BudgetInv, TypeOK', NEW w \in Workers, Report(w)
    PROVE  Charged'
<1> DEFINE job == current[w]
<1>1. /\ job \in Jobs /\ held[w][job] \in Nat /\ held[w][job] > 0
      /\ IsFiniteSet(Signalled)
  BY DEF Report, BudgetInv, Owning, HeldBy, TypeOK, Charged
<1>2. attempts' = attempts /\ faults' = faults /\ Signalled' = Signalled
  BY DEF Report, Record, Complete, FailDead, FailRetry, Signalled
<1>3. \A v \in Workers, k \in Jobs :
          held'[v][k] = IF v = w /\ k = job THEN 0 ELSE held[v][k]
  BY <1>1 DEF Report, EndOfJob, LetGo, BudgetInv, TypeOK
<1>4. \A k \in Jobs \ {job} : status'[k] = status[k] /\ lock_old'[k] = lock_old[k]
  BY <1>1 DEF Report, Record, Complete, FailDead, FailRetry, Unlocked, BudgetInv, TypeOK
<1>5. \/ status'[job] \in {"completed", "dead"}
      \/ held[w][job] < MaxAttempts
  BY <1>1, MaxAttemptsAssumption
  DEF Report, Record, Complete, FailDead, FailRetry, Exhausted, BudgetInv, TypeOK
<1> HIDE DEF job
<1>6. ASSUME NEW k \in Jobs PROVE Budgeted(k)'
  <2>1. \A v \in Workers : held'[v][k] \in {0, held[v][k]}
    BY <1>3
  <2>2. TypeOK /\ Budgeted(k)
    BY DEF BudgetInv, Charged
  <2>3. CASE k # job
    <3>1. Queued(k)' => Queued(k)
      BY <1>3, <1>4, <2>3 DEF Queued, IsHeld
    <3>2. QED
      BY <1>1, <1>2, <2>1, <2>2, <3>1, JobKeepsBudget
  <2>4. CASE k = job /\ status'[job] \in {"completed", "dead"}
    <3>1. ~Queued(k)'
      BY <2>4 DEF Queued
    <3>2. QED
      BY <1>1, <1>2, <2>1, <2>2, <3>1, JobKeepsBudget
  <2>5. CASE k = job /\ held[w][job] < MaxAttempts
    <3> DEFINE n == held[w][job]
    <3>1. n \in Retries(k)
      BY <1>1, <2>5, MaxAttemptsAssumption DEF Retries
    <3>2. n <= attempts[k] /\ attempts[k] \in Nat
      BY <1>1, <2>5 DEF BudgetInv, AttemptsIdentifyClaim, TypeOK
    <3>3. \A v \in Workers : held'[v][k] # n
      BY <1>1, <1>3, <2>5 DEF BudgetInv, AttemptsIdentifyClaim
    <3>4. n \notin Retries(k)'
      BY <1>1, <1>2, <3>2, <3>3 DEF Retries
    <3>5. QED
      BY <1>1, <1>2, <2>1, <2>2, <3>1, <3>4, JobKeepsBudget
  <2>6. QED
    BY <1>5, <2>3, <2>4, <2>5
<1>7. QED
  BY <1>1, <1>2, <1>6 DEF Charged

\* A shutdown message is a fault, and may put one job of each kind back.
LEMMA TriggerCharged ==
    ASSUME BudgetInv, TypeOK', NEW w \in Workers, Trigger(w)
    PROVE  Charged'
<1>1. /\ IsFiniteSet(Signalled) /\ w \notin Signalled
      /\ Signalled' = Signalled \cup {w} /\ faults' = faults + 1
  BY DEF Trigger, Fault, Signalled, BudgetInv, Charged, TypeOK
<1>2. /\ IsFiniteSet(Signalled') /\ Cardinality(Signalled') = Cardinality(Signalled) + 1
      /\ Cardinality(Signalled) \in Nat
  BY <1>1, FS_AddElement, FS_CardinalityType
<1>3. ASSUME NEW j \in Jobs PROVE Budgeted(j)'
  <2>1. /\ attempts'[j] = attempts[j] /\ Retries(j)' = Retries(j) /\ Place(j)' = Place(j)
    BY DEF Trigger, table, Retries, Place, Queued, IsHeld
  <2>2. /\ attempts[j] \in Nat /\ faults \in Nat /\ MaxAttempts \in Nat
        /\ Cardinality(Retries(j)) \in Nat /\ Place(j) \in {0, 1}
    BY RetriesFinite, MaxAttemptsAssumption DEF BudgetInv, TypeOK, Place
  <2>3. attempts[j] + Cardinality(Signalled) + Cardinality(Retries(j)) + Place(j)
            <= MaxAttempts + faults
    BY DEF BudgetInv, Charged, Budgeted
  <2>4. QED
    BY <1>1, <1>2, <2>1, <2>2, <2>3 DEF Budgeted
<1>4. QED
  BY <1>2, <1>3 DEF Charged

LEMMA WorkerStepCharged ==
    ASSUME BudgetInv, TypeOK', NEW w \in Workers, WorkerStep(w)
    PROVE  Charged'
<1> USE DEF Goto, table, past
<1>1. CASE Claim(w)
  BY <1>1, ClaimCharged
<1>2. CASE Report(w)
  BY <1>2, ReportCharged
<1>3. ASSUME NEW j \in Jobs, Release(w, j) PROVE Charged'
  <2>1. attempts' = attempts /\ faults' = faults
    BY <1>3 DEF Release, FailRetry
  <2>2. Signalled' \subseteq Signalled /\ w \in Signalled \ Signalled'
    BY <1>3 DEF Release, IsTriggered, Consume, Signalled, BudgetInv, TypeOK
  <2>3. \A v \in Workers, k \in Jobs : held'[v][k] \in {0, held[v][k]}
    BY <1>3 DEF Release, LetGo, BudgetInv, TypeOK
  <2>4. QED
    BY <2>1, <2>2, <2>3, KeepsBudget DEF BudgetInv
<1>4. CASE Reap(w)
  <2>1. attempts' = attempts /\ faults' = faults /\ held' = held /\ Signalled' = Signalled
    BY <1>4 DEF Reap, ReapStuck, Signalled
  <2>2. ASSUME NEW j \in Jobs, Queued(j)' PROVE Queued(j)
    <3>1. CASE j \in Stuck
      BY <3>1 DEF Stuck, Queued
    <3>2. CASE j \notin Stuck
      <4>1. status'[j] = status[j] /\ lock_old'[j] = lock_old[j]
        BY <1>4, <3>2 DEF Reap, ReapStuck
      <4>2. QED
        BY <2>1, <2>2, <4>1 DEF Queued, IsHeld
    <3>3. QED
      BY <3>1, <3>2
  <2>3. QED
    BY <2>1, <2>2, KeepsBudget DEF BudgetInv
<1>5. CASE \/ StopAtTop(w) \/ SkipReap(w) \/ Poll(w) \/ StopWaiting(w)
           \/ \E j \in Jobs : Dispatch(w, j)
           \/ \E result \in Outcome : DispatchReturns(w, result)
  <2>1. UNCHANGED <<status, lock_old, attempts, held, faults>>
    BY <1>5 DEF StopAtTop, SkipReap, Poll, StopWaiting, Dispatch, DispatchReturns
  <2>2. Signalled' \subseteq Signalled
    BY <1>5 DEF StopAtTop, SkipReap, Poll, StopWaiting, Dispatch, DispatchReturns,
                Consume, Signalled, BudgetInv, TypeOK
  <2>3. \A j \in Jobs : Queued(j)' => Queued(j)
    BY <2>1 DEF Queued, IsHeld
  <2>4. QED
    BY <2>1, <2>2, <2>3, KeepsBudget DEF BudgetInv
<1>6. QED
  BY <1>1, <1>2, <1>3, <1>4, <1>5 DEF WorkerStep

LEMMA WorkerFaultCharged ==
    ASSUME BudgetInv, TypeOK', NEW w \in Workers, WorkerFault(w)
    PROVE  Charged'
<1> USE DEF table, past, Fault
<1>1. CASE ClaimFails(w)
  BY <1>1, ClaimFailsCharged
<1>2. CASE Trigger(w)
  BY <1>2, TriggerCharged
<1>3. CASE \/ ReportFails(w) \/ Crash(w)
           \/ \E j \in Jobs : ReleaseFails(w, j) \/ LockAgesInBatch(w, j)
  <2>1. attempts' = attempts /\ faults' = faults + 1
    BY <1>3 DEF ReportFails, Crash, ReleaseFails, LockAgesInBatch
  <2>2. Signalled' \subseteq Signalled
    BY <1>3 DEF ReportFails, Crash, ReleaseFails, LockAgesInBatch, local, Consume, Signalled,
                BudgetInv, TypeOK
  <2>3. \A v \in Workers, k \in Jobs : held'[v][k] \in {0, held[v][k]}
    BY <1>3 DEF ReportFails, EndOfJob, Crash, ReleaseFails, LetGo, LockAgesInBatch, local,
                BudgetInv, TypeOK
  <2>4. QED
    BY <2>1, <2>2, <2>3, KeepsBudget DEF BudgetInv
<1>4. QED
  BY <1>1, <1>2, <1>3 DEF WorkerFault

LEMMA EnvironmentCharged ==
    ASSUME BudgetInv, TypeOK', Environment
    PROVE  Charged'
<1> USE DEF table, past, local
<1>1. attempts' = attempts /\ faults' = faults /\ held' = held /\ Signalled' = Signalled
  BY DEF Environment, Enqueue, RunAtReached, LockAges, Sweep, NotifyWaiters, NotifyLost,
         Signalled
<1>2. ASSUME NEW k \in Jobs, Queued(k)' PROVE Queued(k)
  <2>1. ASSUME UNCHANGED <<status, lock_old>> PROVE Queued(k)
    BY <1>1, <1>2, <2>1 DEF Queued, IsHeld
  <2>2. CASE \E j \in Jobs, delayed \in BOOLEAN : Enqueue(j, delayed)
    BY <1>1, <1>2, <2>2 DEF Enqueue, Queued, IsHeld, BudgetInv, TypeOK
  <2>3. CASE \E j \in Jobs : LockAges(j)
    BY <1>1, <1>2, <2>3 DEF LockAges, Queued, IsHeld, BudgetInv, TypeOK
  <2>4. CASE \E j \in Jobs : Sweep(j)
    BY <1>1, <1>2, <2>4 DEF Sweep, Queued, IsHeld, BudgetInv, TypeOK
  <2>5. QED
    BY <2>1, <2>2, <2>3, <2>4 DEF Environment, RunAtReached, NotifyWaiters, NotifyLost
<1>3. QED
  BY <1>1, <1>2, KeepsBudget DEF BudgetInv

\* A step that stays among the points of the loop outside the batch, or inside.
LEMMA KeepsHands ==
    ASSUME TypeOK, EmptyHanded, Owning, held' = held, current' = current,
           \A v \in Workers :
               /\ pc'[v] \in {"top", "claim", "idle", "pause", "down"} =>
                      pc[v] \in {"top", "claim", "idle", "pause", "down"}
               /\ pc'[v] \in {"run", "report"} => pc[v] \in {"run", "report"}
    PROVE  EmptyHanded' /\ Owning'
BY DEF EmptyHanded, Owning, HeldBy

LEMMA HandsStep ==
    ASSUME TypeOK, EmptyHanded, Owning, [Next]_vars
    PROVE  EmptyHanded' /\ Owning'
<1> USE DEF Goto
<1>1. ASSUME NEW w \in Workers,
             \/ StopAtTop(w) \/ Reap(w) \/ SkipReap(w) \/ Poll(w) \/ StopWaiting(w)
             \/ ClaimFails(w) \/ Restart(w)
             \/ \E result \in Outcome : DispatchReturns(w, result)
      PROVE  EmptyHanded' /\ Owning'
  <2>1. held' = held /\ current' = current
    BY <1>1 DEF StopAtTop, Reap, SkipReap, Poll, StopWaiting, ClaimFails, Restart,
                DispatchReturns
  <2>2. \A v \in Workers :
            /\ pc'[v] \in {"top", "claim", "idle", "pause", "down"} =>
                   pc[v] \in {"top", "claim", "idle", "pause", "down"}
            /\ pc'[v] \in {"run", "report"} => pc[v] \in {"run", "report"}
    BY <1>1 DEF StopAtTop, Reap, SkipReap, Poll, StopWaiting, ClaimFails, Restart,
                DispatchReturns, TypeOK
  <2>3. QED
    BY <2>1, <2>2, KeepsHands
<1>2. ASSUME NEW w \in Workers, Trigger(w) \/ \E j \in Jobs : LockAgesInBatch(w, j)
      PROVE  EmptyHanded' /\ Owning'
  BY <1>2, KeepsHands DEF Trigger, LockAgesInBatch, local
<1>3. ASSUME NEW w \in Workers, Claim(w) PROVE EmptyHanded' /\ Owning'
  <2>1. \A v \in Workers \ {w} : pc'[v] = pc[v] /\ held'[v] = held[v]
    BY <1>3 DEF Claim, TypeOK
  <2>2. current' = current /\ pc'[w] \in {"idle", "batch"}
    BY <1>3 DEF Claim, TypeOK
  <2>3. pc'[w] = "idle" => HeldBy(w)' = {}
    BY <1>3 DEF Claim, HeldBy, TypeOK
  <2>4. QED
    BY <2>1, <2>2, <2>3 DEF EmptyHanded, Owning, HeldBy
<1>4. ASSUME NEW w \in Workers, NEW j \in Jobs, Dispatch(w, j) PROVE EmptyHanded' /\ Owning'
  BY <1>4 DEF Dispatch, EmptyHanded, Owning, HeldBy, TypeOK
<1>5. ASSUME NEW w \in Workers, NEW j \in Jobs, LetGo(w, j),
             \A v \in Workers \ {w} : current'[v] = current[v]
      PROVE  EmptyHanded' /\ Owning'
  <2>1. \A v \in Workers \ {w} : pc'[v] = pc[v] /\ held'[v] = held[v]
    BY <1>5 DEF LetGo, TypeOK
  <2>2. pc'[w] \in {"top", "batch"} /\ (pc'[w] = "top" => HeldBy(w) = {j})
    BY <1>5 DEF LetGo, TypeOK
  <2>3. pc'[w] = "top" => HeldBy(w)' = {}
    BY <1>5, <2>2 DEF LetGo, HeldBy, TypeOK
  <2>4. QED
    BY <1>5, <2>1, <2>2, <2>3 DEF EmptyHanded, Owning, HeldBy
<1>6. ASSUME NEW w \in Workers, NEW j \in Jobs, Release(w, j) \/ ReleaseFails(w, j)
      PROVE  EmptyHanded' /\ Owning'
  BY <1>5, <1>6 DEF Release, ReleaseFails
<1>7. ASSUME NEW w \in Workers, Report(w) \/ ReportFails(w) PROVE EmptyHanded' /\ Owning'
  <2>1. current[w] \in Jobs /\ EndOfJob(w)
    BY <1>7 DEF Report, ReportFails, TypeOK
  <2>2. \A v \in Workers \ {w} : current'[v] = current[v]
    BY <2>1 DEF EndOfJob, TypeOK
  <2>3. QED
    BY <1>5, <2>1, <2>2 DEF EndOfJob
<1>8. ASSUME NEW w \in Workers, Crash(w) PROVE EmptyHanded' /\ Owning'
  BY <1>8 DEF Crash, EmptyHanded, Owning, HeldBy, TypeOK
<1>9. CASE Environment
  BY <1>9, KeepsHands
  DEF Environment, Enqueue, RunAtReached, LockAges, Sweep, NotifyWaiters, NotifyLost, local,
      TypeOK
<1>10. CASE UNCHANGED vars
  BY <1>10, KeepsHands DEF vars, local
<1>11. QED
  BY <1>1, <1>2, <1>3, <1>4, <1>6, <1>7, <1>8, <1>9, <1>10
  DEF Next, WorkerStep, WorkerFault

LEMMA ChargedStep ==
    ASSUME BudgetInv, TypeOK', [Next]_vars
    PROVE  Charged'
<1>1. ASSUME NEW w \in Workers, Restart(w) PROVE Charged'
  <2>1. UNCHANGED <<status, lock_old, attempts, held, faults>>
    BY <1>1 DEF Restart, table
  <2>2. Signalled' \subseteq Signalled
    BY <1>1 DEF Restart, Signalled, BudgetInv, TypeOK
  <2>3. \A j \in Jobs : Queued(j)' => Queued(j)
    BY <2>1 DEF Queued, IsHeld
  <2>4. QED
    BY <2>1, <2>2, <2>3, KeepsBudget DEF BudgetInv
<1>2. CASE UNCHANGED vars
  <2>1. UNCHANGED <<status, lock_old, attempts, held, faults, signal>>
    BY <1>2 DEF vars, table, local
  <2>2. Signalled' = Signalled /\ \A j \in Jobs : Queued(j)' => Queued(j)
    BY <2>1 DEF Signalled, Queued, IsHeld
  <2>3. QED
    BY <2>1, <2>2, KeepsBudget DEF BudgetInv
<1>3. QED
  BY <1>1, <1>2, WorkerStepCharged, WorkerFaultCharged, EnvironmentCharged DEF Next

\* At first a job has its maximum of attempts before it, and is not there yet.
LEMMA InitCharged == Init => EmptyHanded /\ Owning /\ Charged
<1> SUFFICES ASSUME Init PROVE EmptyHanded /\ Owning /\ Charged
  OBVIOUS
<1>1. EmptyHanded /\ Owning
  BY DEF Init, EmptyHanded, Owning, HeldBy
<1>2. Signalled = {} /\ IsFiniteSet(Signalled) /\ Cardinality(Signalled) = 0
  <2>1. Signalled = {}
    BY DEF Init, Signalled
  <2>2. QED
    BY <2>1, FS_EmptySet
<1>3. ASSUME NEW j \in Jobs PROVE Budgeted(j)
  <2>1. attempts[j] = 0 /\ faults = 0 /\ Place(j) \in {0, 1}
    BY DEF Init, Place
  <2>2. Retries(j) = 1..(MaxAttempts - 1)
    BY <2>1, MaxAttemptsAssumption DEF Retries
  <2>3. Cardinality(Retries(j)) = MaxAttempts - 1
    BY <2>2, FS_Interval, MaxAttemptsAssumption
  <2>4. QED
    BY <1>2, <2>1, <2>3, MaxAttemptsAssumption DEF Budgeted
<1>4. QED
  BY <1>1, <1>2, <1>3 DEF Charged

\* A job is attempted more often than its maximum only as often as something
\* has gone wrong: a crash, a lost reply, a shutdown, or a lock that grew old
\* under a slow batch.
THEOREM AttemptsStayInBudget == Spec => []AttemptBudget
<1>1. Init => EmptyHanded /\ Owning /\ Charged
  BY InitCharged
<1>2. TypeOK /\ TypeOK' /\ AttemptsIdentifyClaim /\ EmptyHanded /\ Owning /\ Charged
          /\ [Next]_vars => (EmptyHanded /\ Owning /\ Charged)'
  BY HandsStep, ChargedStep DEF BudgetInv
<1>3. TypeOK /\ Charged => AttemptBudget
  <2> SUFFICES ASSUME TypeOK, Charged, NEW j \in Jobs
               PROVE  attempts[j] <= MaxAttempts + faults
    BY DEF AttemptBudget
  <2>1. /\ Cardinality(Signalled) \in Nat /\ Cardinality(Retries(j)) \in Nat
        /\ Place(j) \in {0, 1}
    BY RetriesFinite, FS_CardinalityType DEF Charged, Place
  <2>2. attempts[j] \in Nat /\ faults \in Nat /\ MaxAttempts \in Nat
    BY MaxAttemptsAssumption DEF TypeOK
  <2>3. attempts[j] + Cardinality(Signalled) + Cardinality(Retries(j)) + Place(j)
            <= MaxAttempts + faults
    BY DEF Charged, Budgeted
  <2>4. QED
    BY <2>1, <2>2, <2>3
<1>4. QED
  BY <1>1, <1>2, <1>3, TypeCorrect, ClaimsAreTellable, PTL DEF Spec

-----------------------------------------------------------------------------
(* The DLQ holds no job by accident                                        *)

\* Whoever is about to bury a job has seen it fail for good.
BurialIsDue == \A w \in Workers :
    pc[w] = "report" /\ (outcome[w] = "terminal"
                         \/ (outcome[w] = "retry" /\ Exhausted(w, current[w])))
        => current[w] \in doomed

DlqInv == DeadIsJustified /\ BurialIsDue

\* A step that leaves the worker's report alone, or takes it to another point
\* of its loop, and buries nobody.
LEMMA KeepsDlq ==
    ASSUME TypeOK, DlqInv, doomed' = doomed,
           \A j \in Jobs : status'[j] = "dead" => status[j] = "dead",
           \A w \in Workers : pc'[w] = "report" =>
               /\ pc[w] = "report" /\ outcome'[w] = outcome[w]
               /\ current'[w] = current[w]
               /\ held'[w][current[w]] = held[w][current[w]]
    PROVE  DlqInv'
BY DEF DlqInv, DeadIsJustified, BurialIsDue, Exhausted, TypeOK

\* Claiming and reaping bury nobody.
LEMMA BuriesNobody ==
    ASSUME NEW w \in Workers, ClaimRows(w, Batch) \/ ReapStuck \/ UNCHANGED status
    PROVE  \A j \in Jobs : status'[j] = "dead" => status[j] = "dead"
<1>1. CASE ClaimRows(w, Batch)
  BY <1>1 DEF ClaimRows
<1>2. CASE ReapStuck
  <2>1. status' = [j \in Jobs |-> IF j \in Stuck THEN "pending" ELSE status[j]]
    BY <1>2 DEF ReapStuck
  <2>2. QED
    BY <2>1
<1>3. QED
  BY <1>1, <1>2

\* Each step keeps the DLQ justified.
LEMMA DlqStep ==
    ASSUME TypeOK, TypeOK', DlqInv, [Next]_vars
    PROVE  DlqInv'
<1> USE DEF TypeOK, Goto, table, local, past
<1>1. ASSUME NEW w \in Workers, NEW result \in Outcome, DispatchReturns(w, result)
      PROVE  DlqInv'
  <2>1. BurialIsDue'
    BY <1>1 DEF DispatchReturns, DlqInv, BurialIsDue, Exhausted
  <2>2. DeadIsJustified'
    BY <1>1 DEF DispatchReturns, DlqInv, DeadIsJustified
  <2>3. QED
    BY <2>1, <2>2 DEF DlqInv
<1>2. ASSUME NEW w \in Workers, Report(w) PROVE DlqInv'
  <2>1. BurialIsDue'
    BY <1>2 DEF Report, EndOfJob, LetGo, DlqInv, BurialIsDue, Exhausted
  <2>2. DeadIsJustified'
    BY <1>2 DEF Report, Record, Complete, FailDead, FailRetry, DlqInv, BurialIsDue,
                DeadIsJustified
  <2>3. QED
    BY <2>1, <2>2 DEF DlqInv
<1>3. ASSUME NEW w \in Workers, Claim(w) \/ ClaimFails(w) PROVE DlqInv'
  <2>1. doomed' = doomed
    BY <1>3 DEF Claim, ClaimFails
  <2>2. \A j \in Jobs : status'[j] = "dead" => status[j] = "dead"
    BY <1>3, BuriesNobody DEF Claim, ClaimFails
  <2>3. ASSUME NEW v \in Workers, pc'[v] = "report"
        PROVE  /\ pc[v] = "report" /\ outcome'[v] = outcome[v] /\ current'[v] = current[v]
               /\ held'[v][current[v]] = held[v][current[v]]
    BY <1>3, <2>3 DEF Claim, ClaimFails
  <2>4. QED
    BY <2>1, <2>2, <2>3, KeepsDlq
<1>4. ASSUME NEW w \in Workers, NEW j \in Jobs,
             Release(w, j) \/ ReleaseFails(w, j) \/ Dispatch(w, j)
      PROVE  DlqInv'
  <2>1. doomed' = doomed /\ outcome' = outcome /\ pc[w] = "batch" /\ pc'[w] # "report"
    BY <1>4 DEF Release, ReleaseFails, Dispatch, LetGo
  <2>2. \A k \in Jobs : status'[k] = "dead" => status[k] = "dead"
    BY <1>4 DEF Release, ReleaseFails, Dispatch, FailRetry
  <2>3. \A v \in Workers \ {w} :
            pc'[v] = pc[v] /\ current'[v] = current[v] /\ held'[v] = held[v]
    BY <1>4 DEF Release, ReleaseFails, Dispatch, LetGo
  <2>4. QED
    BY <2>1, <2>2, <2>3, KeepsDlq
<1>5. ASSUME NEW w \in Workers, ReportFails(w) \/ Crash(w) \/ Trigger(w) \/ Restart(w)
      PROVE  DlqInv'
  BY <1>5, KeepsDlq DEF ReportFails, EndOfJob, LetGo, Crash, Trigger, Restart
<1>6. ASSUME NEW w \in Workers,
             StopAtTop(w) \/ Reap(w) \/ SkipReap(w) \/ Poll(w) \/ StopWaiting(w)
      PROVE  DlqInv'
  <2>1. doomed' = doomed /\ outcome' = outcome /\ current' = current /\ held' = held
    BY <1>6 DEF StopAtTop, Reap, SkipReap, Poll, StopWaiting
  <2>2. \A j \in Jobs : status'[j] = "dead" => status[j] = "dead"
    BY <1>6, BuriesNobody DEF StopAtTop, Reap, SkipReap, Poll, StopWaiting
  <2>3. \A v \in Workers : pc'[v] = "report" => pc[v] = "report"
    BY <1>6 DEF StopAtTop, Reap, SkipReap, Poll, StopWaiting
  <2>4. QED
    BY <2>1, <2>2, <2>3, KeepsDlq
<1>7. ASSUME NEW w \in Workers, NEW j \in Jobs, LockAgesInBatch(w, j) PROVE DlqInv'
  BY <1>7, KeepsDlq DEF LockAgesInBatch
<1>8. CASE Environment
  BY <1>8, KeepsDlq
  DEF Environment, Enqueue, RunAtReached, LockAges, Sweep, NotifyWaiters, NotifyLost
<1>9. CASE UNCHANGED vars
  BY <1>9, KeepsDlq DEF vars
<1>10. QED
  BY <1>1, <1>2, <1>3, <1>4, <1>5, <1>6, <1>7, <1>8, <1>9 DEF Next, WorkerStep, WorkerFault

\* A job is in the DLQ only if some dispatch of it failed for good, or failed
\* at its last attempt, even if another worker has claimed it meanwhile.
THEOREM DlqIsJustified == Spec => []DeadIsJustified
<1>1. Init => DlqInv
  BY DEF Init, DlqInv, DeadIsJustified, BurialIsDue
<1>2. QED
  BY <1>1, TypeCorrect, DlqStep, PTL DEF Spec, DlqInv

-----------------------------------------------------------------------------
(* What has been carried out stays carried out                             *)

\* ExactlyOnceWithoutFaults alone is not inductive: a served job that is
\* still in progress must have a worker about to record its success.
ServedStays == faults = 0 => \A j \in served :
    \/ status[j] \in {"completed", "deleted"}
    \/ \E w \in Workers : pc[w] = "report" /\ current[w] = j /\ outcome[w] = "ok"

\* A step that takes no worker away from its report and reopens no job.
LEMMA KeepsServed ==
    ASSUME TypeOK, ServedStays, served' = served, faults' = faults,
           \A j \in Jobs : status[j] \in {"completed", "deleted"}
                               => status'[j] \in {"completed", "deleted"},
           \A w \in Workers : pc[w] = "report" =>
               pc'[w] = "report" /\ current'[w] = current[w] /\ outcome'[w] = outcome[w]
    PROVE  ServedStays'
BY DEF ServedStays, TypeOK

\* Each step of a worker keeps what was served.
LEMMA WorkerStepServed ==
    ASSUME OwnerInv, ServedStays, NEW w \in Workers, WorkerStep(w)
    PROVE  ServedStays'
<1> USE DEF OwnerInv, TypeOK, Goto, table, local, past
<1>1. CASE StopAtTop(w) \/ SkipReap(w) \/ Poll(w) \/ StopWaiting(w)
  BY <1>1, KeepsServed DEF StopAtTop, SkipReap, Poll, StopWaiting
<1>2. CASE Reap(w)
  <2>1. \A j \in Jobs : status[j] \in {"completed", "deleted"} => status'[j] = status[j]
    BY <1>2 DEF Reap, ReapStuck, Stuck
  <2>2. served' = served /\ faults' = faults /\ current' = current /\ outcome' = outcome
    BY <1>2 DEF Reap
  <2>3. \A v \in Workers : pc[v] = "report" => pc'[v] = "report"
    BY <1>2 DEF Reap
  <2>4. QED
    BY <2>1, <2>2, <2>3, KeepsServed
<1>3. CASE Claim(w)
  <2>1. \A j \in Jobs : status[j] \in {"completed", "deleted"} => status'[j] = status[j]
    BY <1>3, BatchIsFree DEF Claim, ClaimRows
  <2>2. served' = served /\ faults' = faults /\ current' = current /\ outcome' = outcome
    BY <1>3 DEF Claim
  <2>3. \A v \in Workers : pc[v] = "report" => pc'[v] = "report"
    BY <1>3 DEF Claim
  <2>4. QED
    BY <2>1, <2>2, <2>3, KeepsServed
<1>4. ASSUME NEW j \in Jobs, Release(w, j) PROVE ServedStays'
  <2>1. status[j] = "in_progress"
    BY <1>4 DEF Release, HeldBy, ClaimIsFence
  <2>2. \A k \in Jobs : status[k] \in {"completed", "deleted"} => status'[k] = status[k]
    BY <1>4, <2>1 DEF Release, FailRetry
  <2>3. served' = served /\ faults' = faults /\ current' = current /\ outcome' = outcome
    BY <1>4 DEF Release
  <2>4. \A v \in Workers : pc[v] = "report" => pc'[v] = "report"
    BY <1>4 DEF Release, LetGo
  <2>5. QED
    BY <2>2, <2>3, <2>4, KeepsServed
<1>5. ASSUME NEW j \in Jobs, Dispatch(w, j) PROVE ServedStays'
  BY <1>5, KeepsServed DEF Dispatch
<1>6. ASSUME NEW result \in Outcome, DispatchReturns(w, result) PROVE ServedStays'
  <2>1. pc'[w] = "report" /\ outcome'[w] = result /\ current' = current /\ status' = status
    BY <1>6 DEF DispatchReturns
  <2>2. \A v \in Workers : pc[v] = "report" => pc'[v] = "report" /\ outcome'[v] = outcome[v]
    BY <1>6 DEF DispatchReturns
  <2>3. \A j \in served' : j \in served \/ (j = current[w] /\ result = "ok")
    BY <1>6 DEF DispatchReturns
  <2>4. faults' = faults
    BY <1>6 DEF DispatchReturns
  <2>5. QED
    BY <2>1, <2>2, <2>3, <2>4 DEF ServedStays
<1>7. CASE Report(w)
  <2> DEFINE j == current[w]
  <2>1. pc[w] = "report" /\ j \in Jobs /\ status[j] = "in_progress"
    BY <1>7 DEF Report, Owning, HeldBy, ClaimIsFence
  <2>2. \A k \in Jobs \ {j} : status'[k] = status[k]
    BY <1>7 DEF Report, Record, Complete, FailDead, FailRetry
  <2>3. outcome[w] = "ok" => status'[j] = "completed"
    BY <1>7, <2>1 DEF Report, Record, Complete
  <2>4. \A v \in Workers \ {w} :
            pc'[v] = pc[v] /\ current'[v] = current[v] /\ outcome'[v] = outcome[v]
    BY <1>7 DEF Report, EndOfJob, LetGo
  <2>5. served' = served /\ faults' = faults
    BY <1>7 DEF Report
  <2>6. ASSUME faults' = 0, NEW k \in served'
        PROVE  \/ status'[k] \in {"completed", "deleted"}
               \/ \E v \in Workers : pc'[v] = "report" /\ current'[v] = k /\ outcome'[v] = "ok"
    <3>1. CASE status[k] \in {"completed", "deleted"}
      BY <2>1, <2>2, <2>5, <2>6, <3>1
    <3>2. CASE \E v \in Workers : pc[v] = "report" /\ current[v] = k /\ outcome[v] = "ok"
      BY <2>3, <2>4, <3>2
    <3>3. QED
      BY <2>5, <2>6, <3>1, <3>2 DEF ServedStays
  <2>7. QED
    BY <2>6 DEF ServedStays
<1>8. QED
  BY <1>1, <1>2, <1>3, <1>4, <1>5, <1>6, <1>7 DEF WorkerStep

\* So does everything else; after a fault there is nothing left to keep.
LEMMA ServedStep ==
    ASSUME OwnerInv, ServedStays, [Next]_vars
    PROVE  ServedStays'
<1> USE DEF OwnerInv, TypeOK, Goto, table, local, past
<1>1. ASSUME NEW w \in Workers, WorkerFault(w) PROVE ServedStays'
  <2>1. faults' # 0
    BY <1>1, MaxFaultsAssumption
    DEF WorkerFault, ClaimFails, ReportFails, Trigger, Crash, ReleaseFails, LockAgesInBatch, Fault
  <2>2. QED
    BY <2>1 DEF ServedStays
<1>2. ASSUME NEW w \in Workers, Restart(w) PROVE ServedStays'
  BY <1>2, KeepsServed DEF Restart
<1>3. CASE Environment
  <2>1. ASSUME NEW j \in Jobs, NEW delayed \in BOOLEAN, Enqueue(j, delayed)
        PROVE  ServedStays'
    BY <2>1, KeepsServed DEF Enqueue
  <2>2. ASSUME NEW j \in Jobs, RunAtReached(j) \/ LockAges(j) \/ Sweep(j) PROVE ServedStays'
    BY <2>2, KeepsServed DEF RunAtReached, LockAges, Sweep
  <2>3. CASE NotifyWaiters
    BY <2>3, KeepsServed DEF NotifyWaiters
  <2>4. CASE NotifyLost
    BY <2>4, KeepsServed DEF NotifyLost
  <2>5. QED
    BY <1>3, <2>1, <2>2, <2>3, <2>4 DEF Environment
<1>4. CASE UNCHANGED vars
  BY <1>4, KeepsServed DEF vars
<1>5. QED
  BY <1>1, <1>2, <1>3, <1>4, WorkerStepServed DEF Next

\* As long as nothing goes wrong, a job one dispatch of which returned Ok is
\* never put back in the queue, buried, or dispatched again.
THEOREM ServedOnce == ASSUME ~SlowBatches PROVE Spec => []ExactlyOnceWithoutFaults
<1>1. Init => ServedStays
  BY DEF Init, ServedStays
<1>2. OwnerInv /\ ServedStays => ExactlyOnceWithoutFaults
  <2> SUFFICES ASSUME OwnerInv, ServedStays, faults = 0, NEW j \in served
               PROVE  /\ status[j] \in {"in_progress", "completed", "deleted"}
                      /\ \A w \in Workers : pc[w] = "run" => current[w] # j
    BY DEF ExactlyOnceWithoutFaults
  <2>1. j \in Jobs
    BY DEF OwnerInv, TypeOK
  <2>2. \A w \in Workers : pc[w] \in {"run", "report"} /\ current[w] = j =>
            status[j] = "in_progress" /\ locked_by[j] = w
    BY <2>1 DEF OwnerInv, Owning, HeldBy, ClaimIsFence
  <2>3. CASE status[j] \in {"completed", "deleted"}
    BY <2>2, <2>3
  <2>4. CASE \E w \in Workers : pc[w] = "report" /\ current[w] = j /\ outcome[w] = "ok"
    BY <2>2, <2>4
  <2>5. QED
    BY <2>3, <2>4 DEF ServedStays
<1>3. QED
  BY <1>1, <1>2, OwnerCorrect, ServedStep, PTL DEF Spec
=============================================================================
