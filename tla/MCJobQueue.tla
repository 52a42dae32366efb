----------------------------- MODULE MCJobQueue -----------------------------
(* The queue on a few rows and two workers.                                *)
EXTENDS JobQueue, TLC

WorkerSymmetry == Permutations(Workers)
=============================================================================
