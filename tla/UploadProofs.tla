---------------------------- MODULE UploadProofs ----------------------------
(***************************************************************************)
(* What Upload guarantees for any number of calls and any length of lists. *)
(***************************************************************************)
EXTENDS Upload, TLAPS

USE DEF Waiting, Ended

-----------------------------------------------------------------------------
(* The inductive invariant                                                 *)

\* The length of a list selects its transport; chunks are counted in order.
CallSound(c) ==
    LET r == call[c] IN
    /\ r.at = "put" => r.size <= 1 /\ r.sent = 0
    /\ r.at \in {"start", "chunk", "commit", "cancel"} => r.size >= 2
    /\ r.at = "start" => r.sent = 0
    /\ r.at = "chunk" => r.sent < r.size
    /\ r.at = "commit" => r.sent = r.size

\* A request that is no longer awaited is one whose call has given it up, and
\* a list as a whole is on its way once at most.
RequestSound(m) ==
    LET r == call[m.call] IN
    /\ m.kind = "put" => m.part = 0 /\ r.size <= 1 /\ (Awaited(m) \/ r.at = "unknown")
    /\ m.kind = "commit" => m.part = r.size /\ r.size >= 2 /\ (Awaited(m) \/ r.at = "unknown")
    /\ m.kind = "start" => r.size >= 2 /\ (Awaited(m) \/ r.at = "failed")
    /\ m.kind = "chunk" => m.part < r.size /\ (Awaited(m) \/ r.at \in {"cancel", "failed"})
    /\ m.kind = "cancel" => Awaited(m) \/ r.at = "failed"

\* RoleLogic has staged what the call has counted, as long as the call can
\* still commit.
SessionSound ==
    session # NoSession =>
        LET r == call[session.id] IN
        /\ r.size >= 2
        /\ r.at \notin {"new", "put", "start"}
        /\ r.at = "chunk" => session.staged = {session.id} \X (1..r.sent)
        /\ r.at \in {"commit", "unknown"} => session.staged = List(session.id)

IInv ==
    /\ TypeOK
    /\ \A c \in Calls : CallSound(c)
    /\ \A m \in net : RequestSound(m)
    /\ SessionSound

-----------------------------------------------------------------------------
(* Lemmas                                                                  *)

\* A call that goes on keeps the requests of the others, and its own new one
\* is awaited.
LEMMA GoesKeepsRequests ==
    ASSUME IInv, NEW c \in Calls, NEW r \in Call, NEW others \in SUBSET net,
           Goes(c, r, others), r.at # "new",
           r.at = "put" => r.size <= 1 /\ r.sent = 0,
           r.at \in {"start", "commit"} => r.size >= 2,
           r.at = "chunk" => r.sent < r.size,
           r.at = "commit" => r.sent = r.size,
           \A m \in others : m.call = c =>
               /\ r.size = call[c].size
               /\ m.kind \in {"put", "commit"} => r.at = "unknown"
               /\ m.kind \in {"start", "cancel"} => r.at = "failed"
               /\ m.kind = "chunk" => r.at \in {"cancel", "failed"}
    PROVE  /\ call' \in [Calls -> Call]
           /\ net' \in SUBSET Request
           /\ \A m \in net' : RequestSound(m)'
<1> USE DEF IInv, TypeOK, Goes
<1>1. call' \in [Calls -> Call] /\ call'[c] = r /\ \A d \in Calls \ {c} : call'[d] = call[d]
  OBVIOUS
<1>2. net' \in SUBSET Request
  BY DEF Call, Request, RequestOf
<1>3. ASSUME NEW m \in others PROVE RequestSound(m)'
  <2>1. m \in Request /\ m.call \in Calls /\ RequestSound(m)
    BY DEF Request
  <2>2. CASE m.call = c
    BY <1>1, <2>1, <2>2 DEF RequestSound, Request
  <2>3. CASE m.call # c
    BY <1>1, <2>1, <2>3 DEF RequestSound, Awaited, RequestOf
  <2>4. QED
    BY <2>2, <2>3
<1>4. r.at \in Waiting => RequestSound(RequestOf(c, r))'
  BY <1>1 DEF RequestSound, Awaited, RequestOf, Call
<1>5. QED
  BY <1>1, <1>2, <1>3, <1>4

\* What is true of a request that a call awaits.
LEMMA AwaitedIsCurrent ==
    ASSUME IInv, NEW m \in net
    PROVE  /\ m.call \in Calls /\ m \in Request
           /\ Awaited(m) => m.kind = call[m.call].at /\ m.part = call[m.call].sent
           /\ \A n \in net : n.call = m.call /\ Awaited(n) /\ Awaited(m) => n = m
BY DEF IInv, TypeOK, Request, Awaited, RequestOf

\* A call that is given up or refused, and whether its request stays.
LEMMA ErredKeeps ==
    ASSUME IInv, NEW c \in Calls, call[c].at \in Waiting, NEW r \in Call,
           NEW others \in SUBSET net, Goes(c, r, others),
           r.size = call[c].size, r.sent = call[c].sent,
           \/ r.at = "cancel" /\ call[c].at = "chunk"
           \/ r.at = "failed" /\ ~Final(c) /\ RequestOf(c, call[c]) \notin others
           \/ r.at = "failed" /\ Final(c)
           \/ r.at = "unknown" /\ ~Final(c),
           users' = users, session' = session, untidy' \in SUBSET Calls
    PROVE  IInv'
<1> USE DEF Final
<1>1. \A m \in others : m.call = c =>
               /\ r.size = call[c].size
               /\ m.kind \in {"put", "commit"} => r.at = "unknown"
               /\ m.kind \in {"start", "cancel"} => r.at = "failed"
               /\ m.kind = "chunk" => r.at \in {"cancel", "failed"}
  <2> SUFFICES ASSUME NEW m \in others, m.call = c
               PROVE  /\ r.size = call[c].size
                      /\ m.kind \in {"put", "commit"} => r.at = "unknown"
                      /\ m.kind \in {"start", "cancel"} => r.at = "failed"
                      /\ m.kind = "chunk" => r.at \in {"cancel", "failed"}
    OBVIOUS
  <2>1. RequestSound(m) /\ (Awaited(m) => m.kind = call[c].at /\ m = RequestOf(c, call[c]))
    BY AwaitedIsCurrent DEF IInv, Awaited
  <2>2. QED
    BY <2>1 DEF RequestSound
<1>2. /\ call' \in [Calls -> Call]
      /\ net' \in SUBSET Request
      /\ \A m \in net' : RequestSound(m)'
  BY <1>1, GoesKeepsRequests
<1>3. call'[c] = r /\ \A d \in Calls \ {c} : call'[d] = call[d]
  BY DEF Goes, IInv, TypeOK
<1>4. \A d \in Calls : CallSound(d)'
  BY <1>3 DEF IInv, TypeOK, CallSound, Call
<1>5. SessionSound'
  BY <1>3 DEF IInv, TypeOK, SessionSound, Session, List, CallSound, Call
<1>6. TypeOK'
  BY <1>2 DEF IInv, TypeOK
<1>7. QED
  BY <1>2, <1>4, <1>5, <1>6 DEF IInv

-----------------------------------------------------------------------------
(* Every step keeps the invariant                                          *)

LEMMA BeginInv == ASSUME IInv, NEW c \in Calls, Begin(c) PROVE IInv'
<1> PICK n \in 0..MaxChunks :
           Goes(c, [at |-> IF n <= 1 THEN "put" ELSE "start", size |-> n, sent |-> 0], net)
  BY DEF Begin
<1> DEFINE r == [at |-> IF n <= 1 THEN "put" ELSE "start", size |-> n, sent |-> 0]
<1>1. r \in Call /\ r.at \in {"put", "start"} /\ r.size = n /\ r.sent = 0
  BY MaxChunksAssumption DEF Call
<1>2. call[c].at = "new" /\ UNCHANGED <<users, session, untidy>>
  BY DEF Begin
<1>3. \A m \in net : m.call # c
  BY <1>2, AwaitedIsCurrent DEF IInv, RequestSound, Request
<1>4. /\ r.at = "put" => r.size <= 1 /\ r.sent = 0
      /\ r.at = "start" => r.size >= 2
  BY MaxChunksAssumption
<1> HIDE DEF r
<1>5. Goes(c, r, net)
  BY DEF r
<1>6. /\ call' \in [Calls -> Call]
      /\ net' \in SUBSET Request
      /\ \A m \in net' : RequestSound(m)'
  BY <1>1, <1>3, <1>4, <1>5, GoesKeepsRequests
<1>7. call'[c] = r /\ \A d \in Calls \ {c} : call'[d] = call[d]
  BY <1>5 DEF Goes, IInv, TypeOK
<1>8. CallSound(c)'
  BY <1>7, <1>1, MaxChunksAssumption DEF CallSound, r
<1>9. \A d \in Calls \ {c} : CallSound(d)'
  BY <1>7 DEF IInv, CallSound
<1>10. SessionSound'
  BY <1>2, <1>7 DEF IInv, TypeOK, SessionSound, Session, List
<1>11. QED
  BY <1>2, <1>6, <1>8, <1>9, <1>10 DEF IInv, TypeOK

LEMMA TimeOutInv == ASSUME IInv, NEW c \in Calls, TimeOut(c) PROVE IInv'
<1> DEFINE r == Erred(c, Final(c))
<1>1. /\ call[c] \in Call /\ call[c].at \in Waiting /\ Goes(c, r, net)
      /\ users' = users /\ session' = session /\ untidy' \in SUBSET Calls
  BY DEF TimeOut, IInv, TypeOK
<1>2. /\ r \in Call /\ r.size = call[c].size /\ r.sent = call[c].sent
      /\ \/ r.at = "cancel" /\ call[c].at = "chunk"
         \/ r.at = "failed" /\ Final(c)
         \/ r.at = "unknown" /\ ~Final(c)
  BY <1>1 DEF Erred, To, Final, Call
<1> HIDE DEF r
<1>3. QED
  BY <1>1, <1>2, ErredKeeps

LEMMA CrashInv == ASSUME IInv, NEW c \in Calls, Crash(c) PROVE IInv'
<1> DEFINE r == To(c, IF Final(c) THEN "failed" ELSE "unknown")
<1>1. /\ call[c] \in Call /\ call[c].at \in Waiting /\ Goes(c, r, net)
      /\ users' = users /\ session' = session /\ untidy' \in SUBSET Calls
  BY DEF Crash, IInv, TypeOK
<1>2. /\ r \in Call /\ r.size = call[c].size /\ r.sent = call[c].sent
      /\ \/ r.at = "failed" /\ Final(c)
         \/ r.at = "unknown" /\ ~Final(c)
  BY <1>1 DEF To, Final, Call
<1> HIDE DEF r
<1>3. QED
  BY <1>1, <1>2, ErredKeeps

\* A request that nobody awaits is taken from the net, and no call changes.
LEMMA StaleInv ==
    ASSUME IInv, NEW m \in net, net' = net \ {m}, call' = call, SessionSound',
           users' \in SUBSET Chunk, session' \in Session \cup {NoSession},
           untidy' \in SUBSET Calls
    PROVE  IInv'
BY DEF IInv, TypeOK, CallSound, RequestSound, Awaited, RequestOf

LEMMA RefuseInv == ASSUME IInv, NEW m \in net, Refuse(m) PROVE IInv'
<1> DEFINE c == m.call
           r == Erred(c, TRUE)
<1>1. c \in Calls /\ m \in Request /\ call[c] \in Call
  BY AwaitedIsCurrent DEF IInv, TypeOK
<1>2. CASE Awaited(m)
  <2>1. /\ call[c].at \in Waiting /\ Goes(c, r, net \ {m})
        /\ RequestOf(c, call[c]) \notin net \ {m}
        /\ users' = users /\ session' = session /\ untidy' \in SUBSET Calls
    BY <1>1, <1>2, AwaitedIsCurrent DEF Refuse, IInv, TypeOK, Request, Awaited
  <2>2. /\ r \in Call /\ r.size = call[c].size /\ r.sent = call[c].sent
        /\ \/ r.at = "cancel" /\ call[c].at = "chunk"
           \/ r.at = "failed"
    BY <1>1, <2>1 DEF Erred, To, Call
  <2> HIDE DEF r, c
  <2>3. QED
    BY <1>1, <2>1, <2>2, ErredKeeps
<1>3. CASE ~Awaited(m)
  BY <1>3, StaleInv DEF Refuse, IInv, TypeOK, SessionSound, List
<1>4. QED
  BY <1>2, <1>3

\* A whole list is taken, by a PUT or by a commit.
LEMMA TakenInv ==
    ASSUME IInv, NEW m \in net, m.kind \in {"put", "commit"}, Taken(m),
           users' \in SUBSET Chunk, session' \in {session, NoSession}, untidy' = untidy
    PROVE  IInv'
<1> DEFINE c == m.call
           r == [call[c] EXCEPT !.at = IF Awaited(m) THEN "ok" ELSE "late"]
<1>1. c \in Calls /\ m \in Request /\ call[c] \in Call /\ RequestSound(m)
  BY AwaitedIsCurrent DEF IInv, TypeOK
<1>2. Goes(c, r, net \ {m}) /\ r \in Call /\ r.at \in {"ok", "late"} /\ r.size = call[c].size
  BY <1>1 DEF Taken, Goes, IInv, TypeOK, Call
<1>3. \A n \in net \ {m} : n.call # c
  <2> SUFFICES ASSUME NEW n \in net \ {m}, n.call = c PROVE FALSE
    OBVIOUS
  <2>1. RequestSound(n) /\ n \in Request
    BY AwaitedIsCurrent DEF IInv
  <2>2. n.kind = m.kind /\ n.part = m.part
    BY <1>1, <2>1, AwaitedIsCurrent DEF RequestSound, Call, Request
  <2>3. n = m
    BY <1>1, <2>1, <2>2 DEF Request
  <2>4. QED
    BY <2>3
<1> HIDE DEF r, c
<1>4. /\ call' \in [Calls -> Call]
      /\ net' \in SUBSET Request
      /\ \A n \in net' : RequestSound(n)'
  BY <1>1, <1>2, <1>3, GoesKeepsRequests
<1>5. call'[c] = r /\ \A d \in Calls \ {c} : call'[d] = call[d]
  BY <1>1, <1>2 DEF Goes, IInv, TypeOK
<1>6. \A d \in Calls : CallSound(d)'
  BY <1>2, <1>5 DEF IInv, CallSound
<1>7. SessionSound'
  BY <1>2, <1>5 DEF IInv, TypeOK, SessionSound, Session, List
<1>8. QED
  BY <1>4, <1>6, <1>7 DEF IInv, TypeOK

LEMMA ReplaceUsersInv == ASSUME IInv, NEW m \in net, ReplaceUsers(m) PROVE IInv'
<1>1. List(m.call) \in SUBSET Chunk
  BY AwaitedIsCurrent, MaxChunksAssumption DEF IInv, TypeOK, List, Chunk, Call
<1>2. QED
  BY <1>1, TakenInv DEF ReplaceUsers

LEMMA CommitUploadInv == ASSUME IInv, NEW m \in net, CommitUpload(m) PROVE IInv'
<1>1. session.staged \in SUBSET Chunk
  BY DEF CommitUpload, IsOpen, IInv, TypeOK, Session
<1>2. QED
  BY <1>1, TakenInv DEF CommitUpload

LEMMA StartUploadInv == ASSUME IInv, NEW m \in net, StartUpload(m) PROVE IInv'
<1> DEFINE c == m.call
           r == To(c, "chunk")
<1>1. c \in Calls /\ m \in Request /\ call[c] \in Call /\ RequestSound(m) /\ CallSound(c)
  BY AwaitedIsCurrent DEF IInv, TypeOK
<1>2. /\ session' = [id |-> c, staged |-> {}] /\ session' \in Session
      /\ users' = users /\ untidy' = untidy
  BY <1>1 DEF StartUpload, Session
<1>3. CASE Awaited(m)
  <2>1. /\ Goes(c, r, net \ {m}) /\ call[c].at = "start"
        /\ r \in Call /\ r.at = "chunk" /\ r.size = call[c].size /\ r.sent = 0
        /\ r.size >= 2 /\ r.sent < r.size
    BY <1>1, <1>3, AwaitedIsCurrent DEF StartUpload, Success, To, Call, CallSound
  <2>2. \A n \in net \ {m} : n.call # c
    <3> SUFFICES ASSUME NEW n \in net \ {m}, n.call = c PROVE FALSE
      OBVIOUS
    <3>1. ~Awaited(n) /\ RequestSound(n) /\ n \in Request
      BY <1>3, AwaitedIsCurrent DEF IInv
    <3>2. QED
      BY <2>1, <3>1 DEF RequestSound, Request
  <2> HIDE DEF r, c
  <2>3. /\ call' \in [Calls -> Call]
        /\ net' \in SUBSET Request
        /\ \A n \in net' : RequestSound(n)'
    BY <1>1, <2>1, <2>2, GoesKeepsRequests
  <2>4. call'[c] = r /\ \A d \in Calls \ {c} : call'[d] = call[d]
    BY <1>1, <2>1 DEF Goes, IInv, TypeOK
  <2>5. \A d \in Calls : CallSound(d)'
    BY <2>1, <2>4 DEF IInv, CallSound, Call
  <2>6. SessionSound'
    BY <1>1, <1>2, <2>1, <2>4 DEF SessionSound
  <2>7. QED
    BY <1>2, <2>3, <2>5, <2>6 DEF IInv, TypeOK
<1>4. CASE ~Awaited(m)
  <2>1. call' = call /\ net' = net \ {m} /\ call[c].at = "failed" /\ call[c].size >= 2
    BY <1>1, <1>4 DEF StartUpload, Success, RequestSound
  <2>2. SessionSound'
    BY <1>1, <1>2, <2>1 DEF SessionSound
  <2>3. users' \in SUBSET Chunk /\ untidy' \in SUBSET Calls
    BY <1>2 DEF IInv, TypeOK
  <2> HIDE DEF c, r
  <2>4. QED
    BY <1>2, <2>1, <2>2, <2>3, StaleInv
<1>5. QED
  BY <1>3, <1>4

LEMMA UploadChunkInv == ASSUME IInv, NEW m \in net, UploadChunk(m) PROVE IInv'
<1> DEFINE c == m.call
           r == ChunkConfirmed(c)
           staged == session.staged \cup {<<c, m.part + 1>>}
<1>1. c \in Calls /\ m \in Request /\ call[c] \in Call /\ RequestSound(m) /\ CallSound(c)
  BY AwaitedIsCurrent DEF IInv, TypeOK
<1>2. /\ session \in Session /\ session # NoSession /\ session.id = c
      /\ session' = [id |-> c, staged |-> staged]
      /\ users' = users /\ untidy' = untidy
  BY DEF UploadChunk, IsOpen, IInv, TypeOK, Session
<1>3. CASE Awaited(m)
  <2>1. /\ Goes(c, r, net \ {m}) /\ call[c].at = "chunk" /\ m.part = call[c].sent
        /\ r \in Call /\ r.size = call[c].size /\ r.sent = call[c].sent + 1 /\ r.size >= 2
        /\ \/ r.at = "chunk" /\ r.sent < r.size
           \/ r.at = "commit" /\ r.sent = r.size
    <3>1. Goes(c, r, net \ {m}) /\ call[c].at = "chunk" /\ m.part = call[c].sent
      BY <1>1, <1>3, AwaitedIsCurrent DEF UploadChunk, Success
    <3>2. /\ call[c].size \in 0..MaxChunks /\ call[c].sent \in 0..MaxChunks
          /\ call[c].sent < call[c].size /\ call[c].size >= 2
      BY <1>1, <3>1 DEF Call, CallSound
    <3>3. call[c].sent + 1 \in 0..MaxChunks
      BY <3>2, MaxChunksAssumption
    <3>4. /\ r \in Call /\ r.size = call[c].size /\ r.sent = call[c].sent + 1
          /\ r.at = IF call[c].sent + 1 < call[c].size THEN "chunk" ELSE "commit"
      BY <1>1, <3>3 DEF ChunkConfirmed, Call
    <3> HIDE DEF c, r
    <3>5. QED
      BY <3>1, <3>2, <3>4, MaxChunksAssumption
  <2>2. \A n \in net \ {m} : n.call # c
    <3> SUFFICES ASSUME NEW n \in net \ {m}, n.call = c PROVE FALSE
      OBVIOUS
    <3>1. ~Awaited(n) /\ RequestSound(n) /\ n \in Request
      BY <1>3, AwaitedIsCurrent DEF IInv
    <3>2. QED
      BY <2>1, <3>1 DEF RequestSound, Request
  <2>3. staged = {c} \X (1..r.sent) /\ staged \in SUBSET Chunk
    <3>1. session.staged = {c} \X (1..call[c].sent)
      BY <1>2, <2>1 DEF IInv, SessionSound
    <3>2. call[c].sent \in Nat /\ r.sent <= MaxChunks
      BY <1>1, <2>1, MaxChunksAssumption DEF Call
    <3>3. 1..r.sent = (1..call[c].sent) \cup {m.part + 1}
      BY <2>1, <3>2
    <3>4. staged = {c} \X ((1..call[c].sent) \cup {m.part + 1})
      BY <3>1
    <3>5. staged = {c} \X (1..r.sent)
      BY <3>3, <3>4
    <3> HIDE DEF r, c, staged
    <3>6. 1..r.sent \subseteq 1..MaxChunks
      BY <2>1, <3>2, MaxChunksAssumption
    <3>7. QED
      BY <1>1, <3>5, <3>6 DEF Chunk
  <2> HIDE DEF r, c, staged
  <2>4. /\ call' \in [Calls -> Call]
        /\ net' \in SUBSET Request
        /\ \A n \in net' : RequestSound(n)'
    BY <1>1, <2>1, <2>2, GoesKeepsRequests
  <2>5. call'[c] = r /\ \A d \in Calls \ {c} : call'[d] = call[d]
    BY <1>1, <2>1 DEF Goes, IInv, TypeOK
  <2>6. \A d \in Calls : CallSound(d)'
    BY <2>1, <2>5 DEF IInv, CallSound, Call
  <2>7. SessionSound'
    BY <1>1, <1>2, <2>1, <2>3, <2>5 DEF SessionSound, List
  <2>8. session' \in Session
    BY <1>1, <1>2, <2>3 DEF Session
  <2>9. QED
    BY <1>2, <2>4, <2>6, <2>7, <2>8 DEF IInv, TypeOK
<1>4. CASE ~Awaited(m)
  <2>1. call' = call /\ net' = net \ {m} /\ call[c].at \in {"cancel", "failed"}
    BY <1>1, <1>4 DEF UploadChunk, Success, RequestSound
  <2>2. SessionSound'
    BY <1>1, <1>2, <2>1 DEF SessionSound, IInv
  <2>3. users' \in SUBSET Chunk /\ untidy' \in SUBSET Calls
    BY <1>2 DEF IInv, TypeOK
  <2>4. staged \in SUBSET Chunk
    <3>1. m.part + 1 \in 1..MaxChunks
      BY <1>1, MaxChunksAssumption DEF UploadChunk, RequestSound, Request, Call
    <3>2. QED
      BY <1>1, <1>2, <3>1 DEF Session, Chunk
  <2>5. session' \in Session
    BY <1>1, <1>2, <2>4 DEF Session
  <2> HIDE DEF c, r
  <2>6. QED
    BY <2>1, <2>2, <2>3, <2>5, StaleInv
<1>5. QED
  BY <1>3, <1>4

LEMMA CancelUploadInv == ASSUME IInv, NEW m \in net, CancelUpload(m) PROVE IInv'
<1> DEFINE c == m.call
           r == To(c, "failed")
<1>1. c \in Calls /\ m \in Request /\ call[c] \in Call
  BY AwaitedIsCurrent DEF IInv, TypeOK
<1>2. session' = NoSession /\ users' = users /\ untidy' = untidy
  BY DEF CancelUpload
<1>3. SessionSound'
  BY <1>2 DEF SessionSound
<1>4. CASE Awaited(m)
  <2>1. /\ Goes(c, r, net \ {m}) /\ call[c].at = "cancel"
        /\ r \in Call /\ r.at = "failed" /\ r.size = call[c].size
    BY <1>1, <1>4, AwaitedIsCurrent DEF CancelUpload, Success, To, Call
  <2>2. \A n \in net \ {m} : n.call = c => n.kind \notin {"put", "commit"}
    <3> SUFFICES ASSUME NEW n \in net \ {m}, n.call = c PROVE n.kind \notin {"put", "commit"}
      OBVIOUS
    <3>1. ~Awaited(n) /\ RequestSound(n)
      BY <1>4, AwaitedIsCurrent DEF IInv
    <3>2. QED
      BY <2>1, <3>1 DEF RequestSound
  <2> HIDE DEF r, c
  <2>3. /\ call' \in [Calls -> Call]
        /\ net' \in SUBSET Request
        /\ \A n \in net' : RequestSound(n)'
    BY <1>1, <2>1, <2>2, GoesKeepsRequests
  <2>4. call'[c] = r /\ \A d \in Calls \ {c} : call'[d] = call[d]
    BY <1>1, <2>1 DEF Goes, IInv, TypeOK
  <2>5. \A d \in Calls : CallSound(d)'
    BY <2>1, <2>4 DEF IInv, CallSound
  <2>6. QED
    BY <1>2, <1>3, <2>3, <2>5 DEF IInv, TypeOK
<1>5. CASE ~Awaited(m)
  BY <1>2, <1>3, <1>5, StaleInv DEF CancelUpload, Success, IInv, TypeOK
<1>6. QED
  BY <1>4, <1>5

LEMMA ExpireInv == ASSUME IInv, Expire PROVE IInv'
BY DEF IInv, TypeOK, Expire, CallSound, RequestSound, Awaited, RequestOf, SessionSound

LEMMA StutterInv == ASSUME IInv, UNCHANGED vars PROVE IInv'
BY DEF IInv, TypeOK, vars, CallSound, RequestSound, Awaited, RequestOf, SessionSound, List

LEMMA Inductive == Spec => []IInv
<1>1. Init => IInv
  BY MaxChunksAssumption DEF Init, IInv, TypeOK, Call, CallSound, SessionSound
<1>2. IInv /\ [Next]_vars => IInv'
  BY BeginInv, TimeOutInv, CrashInv, RefuseInv, ReplaceUsersInv, StartUploadInv,
     UploadChunkInv, CommitUploadInv, CancelUploadInv, ExpireInv, StutterInv
     DEF Next, Answer
<1>3. QED
  BY <1>1, <1>2, PTL DEF Spec

\* Calls, requests and RoleLogic's session keep their types.
THEOREM TypeCorrect == Spec => []TypeOK
<1>1. IInv => TypeOK
  BY DEF IInv
<1>2. QED
  BY <1>1, Inductive, PTL

\* A call sends no more chunks than its list has and commits when it has sent
\* them all; a request that nobody awaits was given up by its call; RoleLogic has
\* staged what the call has counted, and the whole list when it is to commit.
THEOREM UploadsKeepOrder ==
    Spec => [](/\ \A c \in Calls : CallSound(c)
               /\ \A m \in net : RequestSound(m)
               /\ SessionSound)
BY Inductive, PTL DEF IInv

-----------------------------------------------------------------------------
(* Replacement                                                             *)

\* The abstract state moves with the one call that does.
LEMMA CallMoves ==
    ASSUME IInv, NEW c \in Calls, NEW r, r.size = call[c].size,
           call' = [call EXCEPT ![c] = r]
    PROVE  /\ [d \in Calls |-> List(d)]' = [d \in Calls |-> List(d)]
           /\ [d \in Calls |-> Fate(call[d].at)]'
                = [[d \in Calls |-> Fate(call[d].at)] EXCEPT ![c] = Fate(r.at)]
<1>1. call'[c] = r /\ \A d \in Calls \ {c} : call'[d] = call[d]
  BY DEF IInv, TypeOK
<1>2. \A d \in Calls : List(d)' = List(d)
  BY <1>1 DEF List
<1>3. [d \in Calls |-> List(d)]' = [d \in Calls |-> List(d)]
  BY <1>2
<1>4. [d \in Calls |-> Fate(call[d].at)]' = [d \in Calls |-> Fate(call'[d].at)]
  OBVIOUS
<1>5. \A d \in Calls : Fate(call'[d].at) = IF d = c THEN Fate(r.at) ELSE Fate(call[d].at)
  BY <1>1
<1>6. [d \in Calls |-> Fate(call[d].at)]'
          = [[d \in Calls |-> Fate(call[d].at)] EXCEPT ![c] = Fate(r.at)]
  BY <1>4, <1>5
<1>7. QED
  BY <1>3, <1>6

\* How a call that has been waiting for an answer ends, as the caller of
\* upload_users sees it.
LEMMA EndRefines ==
    ASSUME IInv, NEW c \in Calls, NEW r, r.size = call[c].size,
           call' = [call EXCEPT ![c] = r], call[c].at \in Waiting,
           \/ r.at \in Waiting \cup {"failed", "unknown"} /\ users' = users
           \/ r.at = "ok" /\ users' = List(c)
    PROVE  [Abstract!Next]_(Abstract!vars)
<1> DEFINE state == [d \in Calls |-> Fate(call[d].at)]
<1>1. /\ [d \in Calls |-> List(d)]' = [d \in Calls |-> List(d)]
      /\ state' = [state EXCEPT ![c] = Fate(r.at)]
      /\ state[c] = "open"
  BY CallMoves DEF Fate
<1>2. CASE r.at \in Waiting /\ users' = users
  <2>1. Fate(r.at) = "open"
    BY <1>2 DEF Fate
  <2>2. state' = state
    BY <1>1, <2>1
  <2>3. QED
    BY <1>1, <1>2, <2>2 DEF Abstract!vars
<1>3. CASE r.at = "failed" /\ users' = users
  <2>1. Abstract!Fail(c)
    BY <1>1, <1>3 DEF Abstract!Fail, Fate
  <2>2. QED
    BY <2>1 DEF Abstract!Next
<1>4. CASE r.at = "unknown" /\ users' = users
  <2>1. Abstract!GiveUp(c)
    BY <1>1, <1>4 DEF Abstract!GiveUp, Fate
  <2>2. QED
    BY <2>1 DEF Abstract!Next
<1>5. CASE r.at = "ok" /\ users' = List(c)
  <2>1. Abstract!Replace(c)
    BY <1>1, <1>5 DEF Abstract!Replace, Fate
  <2>2. QED
    BY <2>1 DEF Abstract!Next
<1>6. QED
  BY <1>2, <1>3, <1>4, <1>5

\* A whole list that is taken replaces the old one at once, for the call that
\* waits for it or for one that has given it up.
LEMMA TakenRefines ==
    ASSUME IInv, NEW m \in net, m.kind \in {"put", "commit"}, Taken(m),
           users' = List(m.call)
    PROVE  [Abstract!Next]_(Abstract!vars)
<1> DEFINE c == m.call
           state == [d \in Calls |-> Fate(call[d].at)]
<1>1. c \in Calls /\ m \in Request /\ call[c] \in Call /\ RequestSound(m)
  BY AwaitedIsCurrent DEF IInv, TypeOK
<1>2. CASE Awaited(m)
  <2> DEFINE r == [call[c] EXCEPT !.at = "ok"]
  <2>1. r.size = call[c].size /\ r.at = "ok" /\ call[c].at \in Waiting
    BY <1>1, <1>2, AwaitedIsCurrent DEF Call
  <2>2. call' = [call EXCEPT ![c] = r]
    BY <1>2 DEF Taken, IInv, TypeOK
  <2> HIDE DEF r
  <2>3. QED
    BY <1>1, <2>1, <2>2, EndRefines
<1>3. CASE ~Awaited(m)
  <2> DEFINE r == [call[c] EXCEPT !.at = "late"]
  <2>1. r.size = call[c].size /\ r.at = "late" /\ call[c].at = "unknown"
    BY <1>1, <1>3 DEF Call, RequestSound
  <2>2. call' = [call EXCEPT ![c] = r]
    BY <1>3 DEF Taken, IInv, TypeOK
  <2> HIDE DEF r
  <2>3. /\ [d \in Calls |-> List(d)]' = [d \in Calls |-> List(d)]
        /\ state' = [state EXCEPT ![c] = Fate(r.at)]
    BY <1>1, <2>1, <2>2, CallMoves
  <2>4. Abstract!ReplaceLate(c)
    BY <1>1, <2>1, <2>3 DEF Abstract!ReplaceLate, Fate
  <2>5. QED
    BY <1>1, <2>4 DEF Abstract!Next
<1>4. QED
  BY <1>2, <1>3

LEMMA BeginRefines ==
    ASSUME IInv, NEW c \in Calls, Begin(c) PROVE [Abstract!Next]_(Abstract!vars)
<1> DEFINE state == [d \in Calls |-> Fate(call[d].at)]
           want  == [d \in Calls |-> List(d)]
<1> PICK n \in 0..MaxChunks :
           Goes(c, [at |-> IF n <= 1 THEN "put" ELSE "start", size |-> n, sent |-> 0], net)
  BY DEF Begin
<1> DEFINE r == [at |-> IF n <= 1 THEN "put" ELSE "start", size |-> n, sent |-> 0]
           list == {c} \X (1..n)
<1>1. r.at \in Waiting /\ r.size = n /\ call[c].at = "new" /\ users' = users
  BY DEF Begin
<1>2. list \in SUBSET Chunk
  BY MaxChunksAssumption DEF Chunk
<1>3. call' = [call EXCEPT ![c] = r]
  BY DEF Goes
<1> HIDE DEF r
<1>4. call'[c] = r /\ \A d \in Calls \ {c} : call'[d] = call[d]
  BY <1>3 DEF IInv, TypeOK
<1>5. List(c)' = list /\ \A d \in Calls \ {c} : List(d)' = List(d)
  BY <1>1, <1>4 DEF List
<1>6. want' = [want EXCEPT ![c] = list]
  BY <1>5
<1>7. \A d \in Calls : Fate(call'[d].at) = IF d = c THEN "open" ELSE Fate(call[d].at)
  BY <1>1, <1>4 DEF Fate
<1>8. state' = [d \in Calls |-> Fate(call'[d].at)]
  OBVIOUS
<1>9. state' = [state EXCEPT ![c] = "open"] /\ state[c] = "new"
  BY <1>1, <1>7, <1>8 DEF Fate
<1>10. Abstract!Begin(c)
  BY <1>1, <1>2, <1>6, <1>9 DEF Abstract!Begin
<1>11. QED
  BY <1>10 DEF Abstract!Next

\* However many calls overlap, whatever their lists' lengths, and however
\* requests are lost, delayed, reordered or refused: RoleLogic's list is
\* replaced as a whole and at most once per call, Ok means replaced, and a call
\* whose chunk or start failed never replaces it.
THEOREM UploadReplaces == Spec => ReplacesAtomically
<1>1. Init => Abstract!Init
  BY MaxChunksAssumption DEF Init, Abstract!Init, Fate, List, Chunk
<1>2. IInv /\ [Next]_vars => [Abstract!Next]_(Abstract!vars)
  <2> SUFFICES ASSUME IInv, [Next]_vars PROVE [Abstract!Next]_(Abstract!vars)
    OBVIOUS
  <2>1. ASSUME NEW c \in Calls, Begin(c) PROVE [Abstract!Next]_(Abstract!vars)
    BY <2>1, BeginRefines
  <2>2. ASSUME NEW c \in Calls, TimeOut(c) PROVE [Abstract!Next]_(Abstract!vars)
    <3> DEFINE r == Erred(c, Final(c))
    <3>1. r.size = call[c].size /\ r.at \in Waiting \cup {"failed", "unknown"}
      BY DEF Erred, To, IInv, TypeOK, Call
    <3>2. call' = [call EXCEPT ![c] = r] /\ users' = users /\ call[c].at \in Waiting
      BY <2>2 DEF TimeOut, Goes
    <3> HIDE DEF r
    <3>3. QED
      BY <3>1, <3>2, EndRefines
  <2>3. ASSUME NEW c \in Calls, Crash(c) PROVE [Abstract!Next]_(Abstract!vars)
    <3> DEFINE r == To(c, IF Final(c) THEN "failed" ELSE "unknown")
    <3>1. r.size = call[c].size /\ r.at \in {"failed", "unknown"}
      BY DEF To, IInv, TypeOK, Call
    <3>2. call' = [call EXCEPT ![c] = r] /\ users' = users /\ call[c].at \in Waiting
      BY <2>3 DEF Crash, Goes
    <3> HIDE DEF r
    <3>3. QED
      BY <3>1, <3>2, EndRefines
  <2>4. ASSUME NEW m \in net, ReplaceUsers(m) PROVE [Abstract!Next]_(Abstract!vars)
    BY <2>4, TakenRefines DEF ReplaceUsers
  <2>5. ASSUME NEW m \in net, CommitUpload(m) PROVE [Abstract!Next]_(Abstract!vars)
    <3>1. RequestSound(m) /\ m.kind = "commit" /\ session.id = m.call /\ session # NoSession
      BY <2>5 DEF CommitUpload, IsOpen, IInv
    <3>2. call[m.call].at \in {"commit", "unknown"}
      BY <3>1, AwaitedIsCurrent DEF RequestSound
    <3>3. session.staged = List(m.call)
      BY <3>1, <3>2 DEF IInv, SessionSound
    <3>4. QED
      BY <2>5, <3>3, TakenRefines DEF CommitUpload
  <2>6. ASSUME NEW m \in net, NEW r, Awaited(m), Goes(m.call, r, net \ {m}), users' = users,
               r.size = call[m.call].size, r.at \in Waiting \cup {"failed"}
        PROVE  [Abstract!Next]_(Abstract!vars)
    <3>1. call[m.call].at \in Waiting /\ m.call \in Calls
      BY <2>6, AwaitedIsCurrent DEF Request
    <3>2. QED
      BY <2>6, <3>1, EndRefines DEF Goes
  <2>7. ASSUME NEW m \in net, UNCHANGED <<users, call>> PROVE [Abstract!Next]_(Abstract!vars)
    BY <2>7 DEF Abstract!vars, List
  <2>8. ASSUME NEW m \in net, StartUpload(m) \/ UploadChunk(m) \/ CancelUpload(m) \/ Refuse(m)
        PROVE  [Abstract!Next]_(Abstract!vars)
    <3> DEFINE c == m.call
    <3>1. c \in Calls /\ call[c] \in Call /\ users' = users
      BY <2>8, AwaitedIsCurrent DEF IInv, TypeOK, StartUpload, UploadChunk, CancelUpload, Refuse
    <3>2. CASE ~Awaited(m)
      BY <2>7, <2>8, <3>1, <3>2 DEF StartUpload, UploadChunk, CancelUpload, Refuse, Success
    <3>3. CASE Awaited(m)
      <4>1. ASSUME NEW r \in {To(c, "chunk"), To(c, "failed"), ChunkConfirmed(c), Erred(c, TRUE)}
            PROVE  r.size = call[c].size
        BY <3>1 DEF To, ChunkConfirmed, Erred, Call
      <4>2. PICK r \in {To(c, "chunk"), To(c, "failed"), ChunkConfirmed(c), Erred(c, TRUE)} :
                   Goes(c, r, net \ {m})
        BY <2>8, <3>3 DEF StartUpload, UploadChunk, CancelUpload, Refuse, Success
      <4>3. r.at \in Waiting \cup {"failed"}
        BY <3>1, <4>2 DEF To, ChunkConfirmed, Erred, Call
      <4>4. QED
        BY <2>6, <3>1, <3>3, <4>1, <4>2, <4>3
    <3>4. QED
      BY <3>2, <3>3
  <2>9. CASE Expire \/ UNCHANGED vars
    BY <2>9 DEF Expire, vars, Abstract!vars, List
  <2>10. QED
    BY <2>1, <2>2, <2>3, <2>4, <2>5, <2>8, <2>9 DEF Next, Answer
<1>3. QED
  BY <1>1, <1>2, Inductive, PTL DEF Spec, Abstract!Spec, ReplacesAtomically

-----------------------------------------------------------------------------
(* Sessions left open                                                      *)

\* A start that comes too late opens a session that nobody knows.
StrayInv ==
    /\ NoStraySession
    /\ \A m \in net : m.kind = "start" /\ ~Awaited(m) => m.call \in untidy

LEMMA ClientStepStray ==
    ASSUME IInv, StrayInv, NEW c \in Calls, Begin(c) \/ TimeOut(c) \/ Crash(c)
    PROVE  StrayInv'
<1>1. PICK r : /\ Goes(c, r, net) /\ session' = session /\ untidy \subseteq untidy'
               /\ \/ r.at \in Waiting /\ (call[c].at = "new" \/ call[c].at = "chunk")
                  \/ call[c].at = "put"
                  \/ c \in untidy'
  <2>1. CASE Begin(c)
    <3>1. PICK n \in 0..MaxChunks :
               Goes(c, [at |-> IF n <= 1 THEN "put" ELSE "start", size |-> n, sent |-> 0], net)
      BY <2>1 DEF Begin
    <3>2. QED
      BY <2>1, <3>1 DEF Begin
  <2>2. CASE TimeOut(c)
    <3>1. call[c].at = "chunk" => Erred(c, Final(c)).at = "cancel"
      BY DEF Erred, To, IInv, TypeOK, Call
    <3>2. Goes(c, Erred(c, Final(c)), net) /\ session' = session /\ call[c].at \in Waiting
          /\ untidy' = IF call[c].at \in {"put", "chunk"} THEN untidy ELSE untidy \cup {c}
      BY <2>2 DEF TimeOut
    <3>3. QED
      BY <3>1, <3>2
  <2>3. CASE Crash(c)
    BY <2>3 DEF Crash
  <2>4. QED
    BY <2>1, <2>2, <2>3
<1>2. call'[c] = r /\ \A d \in Calls \ {c} : call'[d] = call[d]
  BY <1>1 DEF Goes, IInv, TypeOK
<1>3. NoStraySession'
  <2> SUFFICES ASSUME session # NoSession, session.id = c, c \notin untidy'
               PROVE  r.at \in Waiting
    BY <1>1, <1>2 DEF StrayInv, NoStraySession, IInv, TypeOK, Session
  <2>1. QED
    BY <1>1 DEF IInv, SessionSound
<1>4. ASSUME NEW m \in net', m.kind = "start", ~Awaited(m)' PROVE m.call \in untidy'
  <2>1. CASE m \in net /\ m.call # c
    BY <1>1, <1>2, <1>4, <2>1, AwaitedIsCurrent DEF StrayInv, Awaited
  <2>2. CASE m \in net /\ m.call = c
    <3>1. RequestSound(m) /\ (Awaited(m) => call[c].at = "start")
      BY <1>4, <2>2, AwaitedIsCurrent DEF IInv
    <3>2. call[c].at \in {"start", "failed"}
      BY <1>4, <3>1, <2>2 DEF RequestSound
    <3>3. call[c].at # "failed"
      BY <3>2 DEF Begin, TimeOut, Crash
    <3>4. QED
      BY <1>1, <2>2, <3>2, <3>3
  <2>3. CASE m \notin net
    <3>1. m = RequestOf(c, r)
      BY <1>1, <1>4, <2>3 DEF Goes
    <3>2. Awaited(m)'
      BY <1>2, <3>1 DEF Awaited, RequestOf
    <3>3. QED
      BY <1>4, <3>2
  <2>4. QED
    BY <2>1, <2>2, <2>3
<1>5. QED
  BY <1>3, <1>4 DEF StrayInv

LEMMA AnswerNoStray ==
    ASSUME IInv, StrayInv, NEW m \in net, Answer(m) PROVE NoStraySession'
<1> DEFINE c == m.call
<1>1. c \in Calls /\ m \in Request /\ call[c] \in Call /\ RequestSound(m)
  BY AwaitedIsCurrent DEF IInv, TypeOK
<1>2. untidy \subseteq untidy'
  BY DEF Answer, ReplaceUsers, StartUpload, UploadChunk, CommitUpload, CancelUpload, Refuse
<1>5. CASE StartUpload(m)
  <2>1. session' = [id |-> c, staged |-> {}]
    BY <1>5 DEF StartUpload
  <2>2. CASE Awaited(m)
    <3>1. call'[c].at = "chunk"
      BY <1>1, <1>5, <2>2 DEF StartUpload, Success, Goes, To, IInv, TypeOK, Call
    <3>2. QED
      BY <2>1, <3>1 DEF NoStraySession
  <2>3. CASE ~Awaited(m)
    BY <1>2, <1>5, <2>1, <2>3 DEF StartUpload, StrayInv, NoStraySession
  <2>4. QED
    BY <2>2, <2>3
<1>6. CASE UploadChunk(m)
  <2>1. session # NoSession /\ session.id = c /\ session' # NoSession => session'.id = c
    BY <1>6 DEF UploadChunk, IsOpen, IInv, TypeOK, Session
  <2>2. CASE Awaited(m)
    <3>1. call'[c].at \in {"chunk", "commit"}
      BY <1>1, <1>6, <2>2 DEF UploadChunk, Success, Goes, ChunkConfirmed, IInv, TypeOK, Call
    <3>2. QED
      BY <2>1, <1>6, <3>1 DEF NoStraySession, UploadChunk, IsOpen, IInv, TypeOK, Session
  <2>3. CASE ~Awaited(m)
    BY <1>6, <2>1, <2>3 DEF UploadChunk, IsOpen, Success, StrayInv, NoStraySession, IInv, TypeOK, Session
  <2>4. QED
    BY <2>2, <2>3
<1>7. CASE CommitUpload(m) \/ CancelUpload(m)
  BY <1>7 DEF CommitUpload, CancelUpload, NoStraySession
<1>8. CASE ReplaceUsers(m)
  <2>1. session # NoSession => session.id # c
    BY <1>1, <1>8 DEF ReplaceUsers, RequestSound, IInv, SessionSound, Call
  <2>2. QED
    BY <1>1, <1>8, <2>1 DEF ReplaceUsers, Taken, StrayInv, NoStraySession, IInv, TypeOK, Session
<1>9. CASE Refuse(m)
  <2>1. CASE Awaited(m)
    <3>1. m.kind = call[c].at
      BY <2>1, AwaitedIsCurrent
    <3>2. session # NoSession /\ session.id = c => m.kind \in {"chunk", "commit", "cancel"}
      BY <1>1, <3>1 DEF IInv, SessionSound, Request
    <3>3. call'[c] = Erred(c, TRUE) /\ \A d \in Calls \ {c} : call'[d] = call[d]
      BY <1>1, <1>9, <2>1 DEF Refuse, Goes, IInv, TypeOK
    <3>4. m.kind = "chunk" => call'[c].at = "cancel"
      BY <1>1, <3>1, <3>3 DEF Erred, To, Call
    <3>5. QED
      BY <1>1, <1>2, <1>9, <2>1, <3>2, <3>3, <3>4
         DEF Refuse, StrayInv, NoStraySession, IInv, TypeOK, Session
  <2>2. CASE ~Awaited(m)
    BY <1>9, <2>2 DEF Refuse, StrayInv, NoStraySession
  <2>3. QED
    BY <2>1, <2>2
<1>10. QED
  BY <1>5, <1>6, <1>7, <1>8, <1>9 DEF Answer

LEMMA AnswerStray ==
    ASSUME IInv, StrayInv, NEW m \in net, Answer(m) PROVE StrayInv'
<1> DEFINE c == m.call
<1>1. c \in Calls /\ m \in Request /\ call[c] \in Call /\ RequestSound(m)
  BY AwaitedIsCurrent DEF IInv, TypeOK
<1>2. untidy \subseteq untidy'
  BY DEF Answer, ReplaceUsers, StartUpload, UploadChunk, CommitUpload, CancelUpload, Refuse
<1>3. \A d \in Calls \ {c} : call'[d] = call[d]
  BY <1>1 DEF Answer, ReplaceUsers, StartUpload, UploadChunk, CommitUpload, CancelUpload,
              Refuse, Success, Taken, Goes, IInv, TypeOK
<1>4. ~Awaited(m) => call'[c] = call[c] \/ m.kind \in {"put", "commit"}
  BY <1>1 DEF Answer, ReplaceUsers, StartUpload, UploadChunk, CommitUpload, CancelUpload,
              Refuse, Success, Taken, Goes, IInv, TypeOK
<1>5. ASSUME NEW n \in net', n \notin net \ {m} PROVE n = RequestOf(c, call'[c])
  BY <1>1, <1>5 DEF Answer, ReplaceUsers, StartUpload, UploadChunk, CommitUpload, CancelUpload,
              Refuse, Success, Taken, Goes, IInv, TypeOK
<1>6. ASSUME NEW n \in net', n.kind = "start", ~Awaited(n)' PROVE n.call \in untidy'
  <2>1. CASE n \notin net \ {m}
    <3>1. n = RequestOf(c, call'[c]) /\ n.call = c
      BY <1>5, <2>1 DEF RequestOf
    <3>2. QED
      BY <1>6, <3>1 DEF Awaited
  <2>2. CASE n \in net \ {m} /\ ~Awaited(n)
    BY <1>2, <1>6, <2>2 DEF StrayInv
  <2>3. CASE n \in net \ {m} /\ Awaited(n)
    <3>1. n.call = c /\ call'[c] # call[c]
      BY <1>3, <1>6, <2>3, AwaitedIsCurrent DEF Awaited
    <3>2. ~Awaited(m)
      BY <2>3, <3>1, AwaitedIsCurrent
    <3>3. m.kind \in {"put", "commit"} /\ call[c].at = "unknown"
      BY <1>1, <1>4, <3>1, <3>2 DEF RequestSound
    <3>4. call[c].at = "start"
      BY <1>6, <2>3, <3>1, AwaitedIsCurrent
    <3>5. QED
      BY <3>3, <3>4
  <2>4. QED
    BY <2>1, <2>2, <2>3
<1>7. QED
  BY <1>6, AnswerNoStray DEF StrayInv

\* An upload session that RoleLogic still has open is being worked on, or its
\* call died or never got an answer to its start, its commit or its cancel.
THEOREM SessionsAreTended == Spec => []NoStraySession
<1>1. Init => StrayInv
  BY DEF Init, StrayInv, NoStraySession
<1>2. IInv /\ StrayInv /\ [Next]_vars => StrayInv'
  <2> SUFFICES ASSUME IInv, StrayInv, [Next]_vars PROVE StrayInv'
    OBVIOUS
  <2>1. CASE Expire \/ UNCHANGED vars
    BY <2>1 DEF Expire, vars, StrayInv, NoStraySession, Awaited, RequestOf
  <2>2. QED
    BY <2>1, ClientStepStray, AnswerStray DEF Next
<1>3. StrayInv => NoStraySession
  BY DEF StrayInv
<1>4. QED
  BY <1>1, <1>2, <1>3, Inductive, PTL DEF Spec
=============================================================================
