--------------------------- MODULE RefreshProofs ---------------------------
(***************************************************************************)
(* Nobody is overtaken twice: proofs about RefreshSchedule.                *)
(***************************************************************************)
EXTENDS RefreshSchedule, TLAPS

\* Who was selected while m waits is still being refreshed by that worker, has
\* no row, or is due after m.
BehindMe ==
    \A r \in Replicas, m \in Members : \A v \in over[r][m] :
        /\ m \in Due
        /\ v \in batch[r] \/ v \notin linked \/ next[v] > next[m]

\* A failed refresh is postponed by something, at most by a day.
LEMMA BackoffSpan == \A n \in Nat \ {0} : Backoff(n) \in 1..12
  <1> SUFFICES ASSUME NEW n \in Nat \ {0} PROVE Backoff(n) \in 1..12
    OBVIOUS
  <1>1. CASE n >= 5
    BY <1>1 DEF Backoff
  <1>2. CASE n = 1
    BY <1>2 DEF Backoff
  <1>3. CASE n = 2
    BY <1>3 DEF Backoff
  <1>4. CASE n = 3
    BY <1>4 DEF Backoff
  <1>5. CASE n = 4
    BY <1>5 DEF Backoff
  <1> QED BY <1>1, <1>2, <1>3, <1>4, <1>5

LEMMA LeavesType ==
    ASSUME batch \in [Replicas -> SUBSET Members], NEW r \in Replicas, NEW m \in Members,
           Leaves(r, m)
    PROVE  /\ batch' \in [Replicas -> SUBSET Members]
           /\ \A k \in Replicas : batch'[k] \in {batch[k], batch[k] \ {m}}
  BY DEF Leaves

LEMMA ServedIs ==
    ASSUME NEW o \in [Replicas -> [Members -> SUBSET Members]], NEW m \in Members
    PROVE  /\ Served(o, m) \in [Replicas -> [Members -> SUBSET Members]]
           /\ \A r \in Replicas, k \in Members :
                 Served(o, m)[r][k] = IF k = m THEN {} ELSE o[r][k]
  BY DEF Served

LEMMA ForgetIs ==
    ASSUME NEW o \in [Replicas -> [Members -> SUBSET Members]], NEW r \in Replicas,
           NEW S \in SUBSET Members
    PROVE  /\ Forget(o, r, S) \in [Replicas -> [Members -> SUBSET Members]]
           /\ \A k \in Replicas, m \in Members :
                 Forget(o, r, S)[k][m] = IF k = r THEN o[k][m] \ S ELSE o[k][m]
  BY DEF Forget

\* The type invariant of the refresh worker's table and batches.
THEOREM RefreshTypeCorrect == RefreshSpec => []RefreshTypeOK
  <1>1. RefreshInit => RefreshTypeOK
    BY MaxTimeAssumption, MaxSlipsAssumption DEF RefreshInit, RefreshTypeOK
  <1>2. RefreshTypeOK /\ [RefreshNext]_refreshVars => RefreshTypeOK'
    <2> SUFFICES ASSUME RefreshTypeOK, [RefreshNext]_refreshVars PROVE RefreshTypeOK'
      OBVIOUS
    <2> USE MaxTimeAssumption, MaxSlipsAssumption DEF RefreshTypeOK
    <2>1. ASSUME NEW r \in Replicas, TakeBatch(r) PROVE RefreshTypeOK'
      <3>1. PICK S \in SUBSET Due :
              /\ batch' = [batch EXCEPT ![r] = S]
              /\ over' = [over EXCEPT ![r] = [m \in Members |->
                         IF m \in Due \ S THEN over[r][m] \cup S
                         ELSE IF m \in S THEN {} ELSE over[r][m]]]
        BY <2>1 DEF TakeBatch
      <3>2. S \subseteq Members
        BY DEF Due
      <3> QED BY <2>1, <3>1, <3>2 DEF TakeBatch
    <2>2. ASSUME NEW r \in Replicas, ReplicaRestarts(r) PROVE RefreshTypeOK'
      BY <2>2, ForgetIs DEF ReplicaRestarts, Slip
    <2>3. ASSUME NEW r \in Replicas, NEW m \in Members, Refreshed(r, m) PROVE RefreshTypeOK'
      BY <2>3, ServedIs DEF Refreshed, Leaves, Interval
    <2>4. ASSUME NEW r \in Replicas, NEW m \in Members, RefreshFailed(r, m) PROVE RefreshTypeOK'
      <3>1. Backoff(failed[m] + 1) \in Nat /\ Backoff(1) \in Nat
        <4>1. failed[m] + 1 \in Nat \ {0}
          OBVIOUS
        <4> QED BY BackoffSpan, <4>1
      <3>2. now + Backoff(failed[m] + 1) \in Nat /\ now + Backoff(1) \in Nat
        BY <3>1
      <3>3. batch' \in [Replicas -> SUBSET Members]
        BY <2>4, LeavesType DEF RefreshFailed
      <3>4. over' \in [Replicas -> [Members -> SUBSET Members]]
        BY <2>4, ServedIs DEF RefreshFailed
      <3>5. next' \in [Members -> Nat] /\ failed' \in [Members -> Nat]
        BY <2>4, <3>2 DEF RefreshFailed, Postponed
      <3> QED BY <2>4, <3>3, <3>4, <3>5 DEF RefreshFailed
    <2>5. ASSUME NEW r \in Replicas, NEW m \in Members, UpdateLost(r, m) PROVE RefreshTypeOK'
      <3>1. over' \in [Replicas -> [Members -> SUBSET Members]]
        <4>1. {m} \in SUBSET Members /\ over' = Forget(over, r, {m})
          BY <2>5 DEF UpdateLost
        <4> QED BY <4>1, ForgetIs
      <3>2. batch' \in [Replicas -> SUBSET Members]
        BY <2>5, LeavesType DEF UpdateLost
      <3>3. slips' \in 0..MaxSlips
        BY <2>5 DEF UpdateLost, Slip
      <3> QED BY <2>5, <3>1, <3>2, <3>3 DEF UpdateLost
    <2>6. ASSUME NEW m \in Members, RefreshLink(m) \/ RefreshUnlink(m) PROVE RefreshTypeOK'
      <3>1. over' \in [Replicas -> [Members -> SUBSET Members]]
        BY <2>6, ServedIs DEF RefreshLink, RefreshUnlink
      <3>2. next' \in [Members -> Nat] /\ failed' \in [Members -> Nat]
        BY <2>6 DEF RefreshLink, RefreshUnlink, Interval
      <3>3. linked' \in SUBSET Members /\ UNCHANGED <<now, batch, slips>>
        BY <2>6 DEF RefreshLink, RefreshUnlink
      <3> QED BY <3>1, <3>2, <3>3
    <2>7. CASE RefreshTick
      BY <2>7 DEF RefreshTick
    <2>8. CASE UNCHANGED refreshVars
      BY <2>8 DEF refreshVars
    <2> QED BY <2>1, <2>2, <2>3, <2>4, <2>5, <2>6, <2>7, <2>8 DEF RefreshNext, RefreshEnds
  <1> QED BY <1>1, <1>2, PTL DEF RefreshSpec

-----------------------------------------------------------------------------
LEMMA BatchBehind ==
    ASSUME RefreshTypeOK, BehindMe, NEW r \in Replicas, TakeBatch(r)
    PROVE  BehindMe'
  <1>1. PICK S \in SUBSET Due :
          /\ batch' = [batch EXCEPT ![r] = S]
          /\ over' = [over EXCEPT ![r] = [m \in Members |->
                     IF m \in Due \ S THEN over[r][m] \cup S
                     ELSE IF m \in S THEN {} ELSE over[r][m]]]
    BY DEF TakeBatch
  <1>2. batch[r] = {} /\ UNCHANGED <<linked, next, Due>>
    BY DEF TakeBatch, Due
  <1>3. S \subseteq Members
    BY DEF Due, RefreshTypeOK
  <1> SUFFICES ASSUME NEW k \in Replicas, NEW m \in Members, NEW v \in over'[k][m]
               PROVE  m \in Due /\ (v \in batch'[k] \/ v \notin linked \/ next[v] > next[m])
    BY <1>2 DEF BehindMe
  <1>4. CASE k # r
    BY <1>1, <1>4 DEF BehindMe, RefreshTypeOK
  <1>5. CASE k = r /\ m \in Due \ S
    <2>1. v \in over[r][m] \/ v \in S
      BY <1>1, <1>5, <1>3 DEF RefreshTypeOK
    <2> QED BY <2>1, <1>1, <1>2, <1>5 DEF BehindMe, RefreshTypeOK
  <1>6. CASE k = r /\ m \notin Due \ S
    <2>1. v \in over[r][m] /\ m \notin S
      BY <1>1, <1>3, <1>6 DEF RefreshTypeOK
    <2> QED BY <2>1, <1>2, <1>6 DEF BehindMe
  <1> QED BY <1>4, <1>5, <1>6

\* m is served: his time comes later than now, and nobody is behind him.
LEMMA ServedBehind ==
    ASSUME RefreshTypeOK, BehindMe, NEW m \in Members, NEW later \in Nat, later > now,
           NEW here, here \in {linked, linked \cup {m}},
           now' = now, linked' = here, over' = Served(over, m),
           next' = [next EXCEPT ![m] = later],
           \A r \in Replicas : batch'[r] \in {batch[r], batch[r] \ {m}}
    PROVE  BehindMe'
  <1> USE DEF RefreshTypeOK
  <1> SUFFICES ASSUME NEW r \in Replicas, NEW k \in Members, NEW v \in over'[r][k]
               PROVE  k \in Due' /\ (v \in batch'[r] \/ v \notin linked' \/ next'[v] > next'[k])
    BY DEF BehindMe
  <1>1. k # m /\ v \in over[r][k]
    BY ServedIs
  <1>2. k \in Due /\ (v \in batch[r] \/ v \notin linked \/ next[v] > next[k])
    BY <1>1 DEF BehindMe
  <1>3. v \in Members /\ next'[k] = next[k] /\ next[k] <= now
    BY <1>1, <1>2 DEF Due
  <1>4. k \in Due'
    BY <1>1, <1>2, <1>3 DEF Due
  <1>5. CASE v = m
    BY <1>3, <1>4, <1>5
  <1>6. CASE v # m
    BY <1>2, <1>3, <1>4, <1>6
  <1> QED BY <1>5, <1>6

\* What has been written of nobody is forgotten of everybody.
LEMMA ForgottenBehind ==
    ASSUME RefreshTypeOK, BehindMe, NEW r \in Replicas, NEW S \in SUBSET Members,
           over' = Forget(over, r, S), batch' = [batch EXCEPT ![r] = @ \ S],
           UNCHANGED <<now, linked, next>>
    PROVE  BehindMe'
  <1> USE DEF RefreshTypeOK
  <1> SUFFICES ASSUME NEW k \in Replicas, NEW m \in Members, NEW v \in over'[k][m]
               PROVE  m \in Due' /\ (v \in batch'[k] \/ v \notin linked' \/ next'[v] > next'[m])
    BY DEF BehindMe
  <1>1. v \in over[k][m] /\ (k = r => v \notin S)
    <2>1. over'[k][m] = IF k = r THEN over[k][m] \ S ELSE over[k][m]
      BY DEF Forget
    <2> QED BY <2>1
  <1>2. m \in Due /\ (v \in batch[k] \/ v \notin linked \/ next[v] > next[m])
    BY <1>1 DEF BehindMe
  <1> QED BY <1>1, <1>2 DEF Due

LEMMA BehindStep == RefreshTypeOK /\ BehindMe /\ [RefreshNext]_refreshVars => BehindMe'
  <1> SUFFICES ASSUME RefreshTypeOK, BehindMe, [RefreshNext]_refreshVars PROVE BehindMe'
    OBVIOUS
  <1> USE DEF RefreshTypeOK
  <1>1. ASSUME NEW r \in Replicas, TakeBatch(r) PROVE BehindMe'
    BY <1>1, BatchBehind
  <1>2. ASSUME NEW r \in Replicas, ReplicaRestarts(r) PROVE BehindMe'
    <2>1. batch' = [batch EXCEPT ![r] = @ \ batch[r]]
      BY <1>2 DEF ReplicaRestarts
    <2> QED BY <1>2, <2>1, ForgottenBehind DEF ReplicaRestarts
  <1>3. ASSUME NEW r \in Replicas, NEW m \in Members, Refreshed(r, m) PROVE BehindMe'
    <2>1. \A k \in Replicas : batch'[k] \in {batch[k], batch[k] \ {m}}
      BY <1>3, LeavesType DEF Refreshed
    <2>2. now + Interval \in Nat /\ now + Interval > now
      BY MaxTimeAssumption DEF Interval
    <2> QED BY <1>3, <2>1, <2>2, ServedBehind DEF Refreshed
  <1>4. ASSUME NEW r \in Replicas, NEW m \in Members, RefreshFailed(r, m) PROVE BehindMe'
    <2>1. \A k \in Replicas : batch'[k] \in {batch[k], batch[k] \ {m}}
      BY <1>4, LeavesType DEF RefreshFailed
    <2>2. ASSUME NEW n \in Nat \ {0}
          PROVE  now + Backoff(n) \in Nat /\ now + Backoff(n) > now
      <3>1. Backoff(n) \in 1..12
        BY BackoffSpan
      <3>2. now \in Nat
        BY MaxTimeAssumption
      <3> HIDE DEF RefreshTypeOK
      <3> QED BY <3>1, <3>2
    <2>3. failed[m] + 1 \in Nat \ {0} /\ 1 \in Nat \ {0}
      OBVIOUS
    <2>4. CASE m \in linked /\ Postponed(m) /\ over' = Served(over, m) /\ linked' = linked
      BY <1>4, <2>1, <2>2, <2>3, <2>4, ServedBehind DEF RefreshFailed, Postponed
    <2>5. CASE /\ linked' = linked \cup {m} /\ over' = Served(over, m)
               /\ next' = [next EXCEPT ![m] = now + Backoff(1)]
      BY <1>4, <2>1, <2>2, <2>3, <2>5, ServedBehind DEF RefreshFailed
    <2>6. CASE m \notin linked /\ UNCHANGED <<linked, next, over>>
      <3>1. now' = now /\ Due' = Due
        BY <1>4, <2>6 DEF RefreshFailed, Due
      <3>2. ASSUME NEW k \in Replicas, NEW w \in Members, NEW v \in over[k][w]
            PROVE  w \in Due /\ (v \in batch'[k] \/ v \notin linked \/ next[v] > next[w])
        <4>1. w \in Due /\ (v \in batch[k] \/ v \notin linked \/ next[v] > next[w])
          BY DEF BehindMe
        <4> QED BY <4>1, <2>1, <2>6
      <3> QED BY <2>6, <3>1, <3>2 DEF BehindMe
    <2> QED BY <1>4, <2>4, <2>5, <2>6 DEF RefreshFailed
  <1>5. ASSUME NEW r \in Replicas, NEW m \in Members, UpdateLost(r, m) PROVE BehindMe'
    <2>1. batch' = [batch EXCEPT ![r] = @ \ {m}] /\ {m} \in SUBSET Members
      BY <1>5 DEF UpdateLost, Leaves
    <2> QED BY <1>5, <2>1, ForgottenBehind DEF UpdateLost
  <1>6. ASSUME NEW m \in Members, RefreshLink(m) PROVE BehindMe'
    <2>1. now + Interval \in Nat /\ now + Interval > now
      BY MaxTimeAssumption DEF Interval
    <2> QED BY <1>6, <2>1, ServedBehind DEF RefreshLink
  <1>7. ASSUME NEW m \in Members, RefreshUnlink(m) PROVE BehindMe'
    <2> SUFFICES ASSUME NEW r \in Replicas, NEW k \in Members, NEW v \in over'[r][k]
                 PROVE  k \in Due' /\ (v \in batch'[r] \/ v \notin linked' \/ next'[v] > next'[k])
      BY DEF BehindMe
    <2>1. k # m /\ v \in over[r][k]
      BY <1>7, ServedIs DEF RefreshUnlink
    <2>2. k \in Due /\ (v \in batch[r] \/ v \notin linked \/ next[v] > next[k])
      BY <2>1 DEF BehindMe
    <2> QED BY <1>7, <2>1, <2>2 DEF RefreshUnlink, Due
  <1>8. CASE RefreshTick
    <2>1. Due \subseteq Due'
      BY <1>8, MaxTimeAssumption DEF RefreshTick, Due
    <2> QED BY <1>8, <2>1 DEF RefreshTick, BehindMe
  <1>9. CASE UNCHANGED refreshVars
    BY <1>9 DEF refreshVars, BehindMe, Due
  <1> QED BY <1>1, <1>2, <1>3, <1>4, <1>5, <1>6, <1>7, <1>8, <1>9 DEF RefreshNext, RefreshEnds

\* A batch that leaves m out holds nobody who was ahead of him before.
LEMMA BatchOvertakesOnce ==
    ASSUME RefreshTypeOK, BehindMe, [RefreshNext]_refreshVars,
           NEW r \in Replicas, NEW m \in Members,
           m \in Due, batch[r] = {}, m \notin batch'[r]
    PROVE  batch'[r] \cap over[r][m] = {}
  <1> USE DEF RefreshTypeOK
  <1>1. CASE TakeBatch(r)
    <2>1. PICK S \in SUBSET Due : OldestOfDue(S) /\ batch' = [batch EXCEPT ![r] = S]
      BY <1>1 DEF TakeBatch
    <2>2. SUFFICES ASSUME NEW v \in S, v \in over[r][m] PROVE FALSE
      BY <2>1
    <2>3. next[v] <= next[m] /\ v \in linked /\ v \in Members
      BY <2>1, <2>2 DEF OldestOfDue, Due
    <2>4. next[v] > next[m]
      BY <2>2, <2>3 DEF BehindMe
    <2> QED BY <2>3, <2>4
  <1>2. CASE ~TakeBatch(r)
    <2>1. ASSUME NEW k \in Replicas, TakeBatch(k) PROVE batch'[r] \subseteq batch[r]
      <3>1. k # r
        BY <1>2, <2>1
      <3>2. PICK S : batch' = [batch EXCEPT ![k] = S]
        BY <2>1 DEF TakeBatch
      <3> QED BY <3>1, <3>2
    <2>2. ASSUME NEW k \in Replicas, ReplicaRestarts(k) PROVE batch'[r] \subseteq batch[r]
      BY <2>2 DEF ReplicaRestarts
    <2>3. ASSUME NEW k \in Replicas, NEW v \in Members, RefreshEnds(k, v)
          PROVE  batch'[r] \subseteq batch[r]
      <3>1. Leaves(k, v)
        BY <2>3 DEF RefreshEnds, Refreshed, RefreshFailed, UpdateLost
      <3>2. batch'[r] \in {batch[r], batch[r] \ {v}}
        BY <3>1, LeavesType
      <3> QED BY <3>2
    <2>4. ASSUME NEW v \in Members, RefreshLink(v) \/ RefreshUnlink(v)
          PROVE  batch'[r] \subseteq batch[r]
      BY <2>4 DEF RefreshLink, RefreshUnlink
    <2>5. CASE RefreshTick \/ UNCHANGED refreshVars
      BY <2>5 DEF RefreshTick, refreshVars
    <2> QED BY <2>1, <2>2, <2>3, <2>4, <2>5 DEF RefreshNext
  <1> QED BY <1>1, <1>2

\* OvertakenOnce: while a player waits, a worker takes each other one ahead of
\* him at most once, for any number of replicas and players and any batch size.
THEOREM NobodyIsOvertakenTwice == RefreshSpec => OvertakenOnce
  <1>1. RefreshInit => BehindMe
    BY DEF RefreshInit, BehindMe
  <1>2. RefreshTypeOK /\ BehindMe /\ [RefreshNext]_refreshVars =>
            [\A r \in Replicas, m \in Members :
               m \in Due /\ batch[r] = {} /\ m \notin batch'[r] =>
                   batch'[r] \cap over[r][m] = {}]_refreshVars
    BY BatchOvertakesOnce
  <1> QED BY <1>1, <1>2, BehindStep, RefreshTypeCorrect, PTL DEF RefreshSpec, OvertakenOnce
=============================================================================
