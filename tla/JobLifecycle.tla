---------------------------- MODULE JobLifecycle ----------------------------
(***************************************************************************)
(* What the queue promises of each job, whatever the workers do: the       *)
(* lifecycle of migrations/004_jobs.sql,                                   *)
(*   pending -> in_progress -> (completed | pending-with-backoff | dead),  *)
(* with at-least-once execution: a job is completed only after a dispatch  *)
(* of it has returned Ok, and a row leaves the table only once it has      *)
(* reached an end.                                                         *)
(***************************************************************************)
CONSTANT Jobs

VARIABLES
    phase,  \* where each job stands
    served  \* jobs that some dispatch has carried out

vars == <<phase, served>>

Ended == {"completed", "dead"}

Init == /\ phase = [j \in Jobs |-> "absent"]
        /\ served = {}

Move(S, to) == phase' = [j \in Jobs |-> IF j \in S THEN to ELSE phase[j]]

Submit(j) == /\ phase[j] = "absent"
             /\ Move({j}, "pending")
             /\ UNCHANGED served

\* A batch starts; a batch (of one, or of all a crash left behind) returns.
Start(B) == /\ \A j \in B : phase[j] = "pending"
            /\ Move(B, "in_progress")
            /\ UNCHANGED served

Return(B) == /\ \A j \in B : phase[j] = "in_progress"
             /\ Move(B, "pending")
             /\ UNCHANGED served

Serve(j) == /\ phase[j] = "in_progress"
            /\ served' = served \cup {j}
            /\ UNCHANGED phase

Finish(j) == /\ phase[j] = "in_progress"
             /\ j \in served
             /\ Move({j}, "completed")
             /\ UNCHANGED served

Bury(j) == /\ phase[j] = "in_progress"
           /\ Move({j}, "dead")
           /\ UNCHANGED served

Purge(j) == /\ phase[j] \in Ended
            /\ Move({j}, "deleted")
            /\ UNCHANGED served

Next ==
    \/ \E j \in Jobs : Submit(j) \/ Serve(j) \/ Finish(j) \/ Bury(j) \/ Purge(j)
    \/ \E B \in SUBSET Jobs : Start(B) \/ Return(B)

Spec == Init /\ [][Next]_vars

\* A job that was enqueued comes to an end: it is completed or in the DLQ.
Settles == \A j \in Jobs :
    phase[j] \in {"pending", "in_progress"} ~> phase[j] \in Ended \cup {"deleted"}
=============================================================================
