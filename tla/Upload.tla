------------------------------- MODULE Upload -------------------------------
(***************************************************************************)
(* upload_users of the RoleLogic client (src/services/rolelogic.rs): a     *)
(* list of at most 100,000 users goes out as one PUT, a longer one as an   *)
(* upload session: start, chunks, commit, and a best-effort cancel when a  *)
(* chunk fails.  Each request has a timeout, and one that has timed out    *)
(* may still reach RoleLogic, in any order with what was sent later.       *)
(*                                                                         *)
(* RoleLogic is modelled by what the client's requests, its error markers  *)
(* and its tests tell: one session per link ("Upload already in            *)
(* progress"), which collects chunks until a commit makes them the list.   *)
(***************************************************************************)
EXTENDS Integers, FiniteSets

CONSTANTS
    Calls,      \* calls of upload_users for one link, by any workers
    MaxChunks,  \* bound on the length of a list, in chunks
    NoSession

ASSUME MaxChunksAssumption == MaxChunks \in Nat
ASSUME NoSessionAssumption == NoSession \notin [id : Calls, staged : SUBSET (Calls \X (1..MaxChunks))]

VARIABLES
    users,    \* the list RoleLogic holds: chunks of users
    session,  \* RoleLogic's open upload
    net,      \* requests RoleLogic has not answered
    call,     \* where upload_users is, by call
    untidy    \* calls that stopped before RoleLogic confirmed an end of their session

vars == <<users, session, net, call, untidy>>

Waiting == {"put", "start", "chunk", "commit", "cancel"}
Ended   == {"ok", "failed", "unknown", "late"}

\* size: the list's length in chunks, one chunk being the most that a PUT may
\* have; sent: chunks RoleLogic has confirmed.  "unknown" and "late" end in
\* an error like "failed"; they tell whether RoleLogic may still take, or has
\* taken, the list all the same.
Call == [at : {"new"} \cup Waiting \cup Ended, size : 0..MaxChunks, sent : 0..MaxChunks]

\* The users of the i-th chunk of a call's list stand as one for one another.
Chunk   == Calls \X (1..MaxChunks)
Session == [id : Calls, staged : SUBSET Chunk]
Request == [call : Calls, kind : Waiting, part : 0..MaxChunks]
List(c) == {c} \X (1..call[c].size)

TypeOK ==
    /\ users \in SUBSET Chunk
    /\ session \in Session \cup {NoSession}
    /\ net \in SUBSET Request
    /\ call \in [Calls -> Call]
    /\ untidy \in SUBSET Calls

Init ==
    /\ users = {}
    /\ session = NoSession
    /\ net = {}
    /\ call = [c \in Calls |-> [at |-> "new", size |-> 0, sent |-> 0]]
    /\ untidy = {}

-----------------------------------------------------------------------------
(* The client                                                              *)

\* The request that a call in state r waits for.
RequestOf(c, r) == [call |-> c, kind |-> r.at, part |-> r.sent]
Awaited(m) == m = RequestOf(m.call, call[m.call])

\* The call goes on as r, with a request of its own unless it has ended.
Goes(c, r, others) ==
    /\ call' = [call EXCEPT ![c] = r]
    /\ net' = others \cup (IF r.at \in Waiting THEN {RequestOf(c, r)} ELSE {})

To(c, at) == [call[c] EXCEPT !.at = at]

\* Mutant: one chunk more than there are.
ChunkConfirmedLong(c) ==
    [call[c] EXCEPT !.sent = @ + 1,
                    !.at = IF call[c].sent < call[c].size THEN "chunk" ELSE "commit"]

\* A chunk is confirmed: on to the next one, or to the commit.
ChunkConfirmed(c) ==
    [call[c] EXCEPT !.sent = @ + 1,
                    !.at = IF call[c].sent + 1 < call[c].size THEN "chunk" ELSE "commit"]

\* Mutant: the session of a failed chunk is left to itself.
ErredWithoutCancel(c, final) == To(c, IF final THEN "failed" ELSE "unknown")

\* Mutant: a failed chunk is skipped.
ErredGoesOn(c, final) ==
    IF call[c].at = "chunk" THEN ChunkConfirmed(c)
    ELSE To(c, IF final THEN "failed" ELSE "unknown")

\* The call gets an error: after a chunk it cancels the session, else it
\* returns.  final: RoleLogic cannot take the list any more.
Erred(c, final) ==
    To(c, IF call[c].at = "chunk" THEN "cancel" ELSE IF final THEN "failed" ELSE "unknown")

\* upload_users begins, with a list of any length.
Begin(c) ==
    /\ call[c].at = "new"
    /\ \E n \in 0..MaxChunks :
          Goes(c, [at |-> IF n <= 1 THEN "put" ELSE "start", size |-> n, sent |-> 0], net)
    /\ UNCHANGED <<users, session, untidy>>

\* A list that is on its way as a whole may arrive after the call has ended.
Final(c) == call[c].at \notin {"put", "commit"}

\* Mutant: the cancel, being best-effort, is awaited without a timeout.
TimeOutButCancel(c) ==
    /\ call[c].at \in Waiting \ {"cancel"}
    /\ Goes(c, Erred(c, Final(c)), net)
    /\ untidy' = IF call[c].at \in {"put", "chunk"} THEN untidy ELSE untidy \cup {c}
    /\ UNCHANGED <<users, session>>

\* No answer in time, or none that can be read (30 s, 120 s for a chunk, 30
\* min for a commit).  The request may still be on its way.
TimeOut(c) ==
    /\ call[c].at \in Waiting
    /\ Goes(c, Erred(c, Final(c)), net)
    /\ untidy' = IF call[c].at \in {"put", "chunk"} THEN untidy ELSE untidy \cup {c}
    /\ UNCHANGED <<users, session>>

\* The worker dies; nobody else knows the session.
Crash(c) ==
    /\ call[c].at \in Waiting
    /\ Goes(c, To(c, IF Final(c) THEN "failed" ELSE "unknown"), net)
    /\ untidy' = untidy \cup {c}
    /\ UNCHANGED <<users, session>>

-----------------------------------------------------------------------------
(* RoleLogic                                                               *)

IsOpen(c) == session # NoSession /\ session.id = c

\* m is answered with a success, which its call may no longer wait for.
Success(m, r) == IF Awaited(m)
    THEN Goes(m.call, r, net \ {m})
    ELSE net' = net \ {m} /\ UNCHANGED call

\* The whole list arrives: the call returns Ok, or has returned an error.
Taken(m) ==
    /\ net' = net \ {m}
    /\ call' = [call EXCEPT ![m.call].at = IF Awaited(m) THEN "ok" ELSE "late"]

\* PUT /users
ReplaceUsers(m) ==
    /\ m.kind = "put"
    /\ users' = List(m.call)
    /\ Taken(m)
    /\ UNCHANGED <<session, untidy>>

\* POST /users/upload
StartUpload(m) ==
    /\ m.kind = "start"
    /\ session = NoSession
    /\ session' = [id |-> m.call, staged |-> {}]
    /\ Success(m, To(m.call, "chunk"))
    /\ UNCHANGED <<users, untidy>>

\* POST /users/upload/{id}/chunk
UploadChunk(m) ==
    /\ m.kind = "chunk"
    /\ IsOpen(m.call)
    /\ session' = [session EXCEPT !.staged = @ \cup {<<m.call, m.part + 1>>}]
    /\ Success(m, ChunkConfirmed(m.call))
    /\ UNCHANGED <<users, untidy>>

\* POST /users/upload/{id}/commit
CommitUpload(m) ==
    /\ m.kind = "commit"
    /\ IsOpen(m.call)
    /\ users' = session.staged
    /\ session' = NoSession
    /\ Taken(m)
    /\ UNCHANGED untidy

\* DELETE /users/upload/{id}
CancelUpload(m) ==
    /\ m.kind = "cancel"
    /\ IsOpen(m.call)
    /\ session' = NoSession
    /\ Success(m, To(m.call, "failed"))
    /\ UNCHANGED <<users, untidy>>

\* Any error: link gone, disabled or paused, an upload in progress or
\* unknown, a commit that the shrink gate holds, a server error.
Refuse(m) ==
    /\ IF Awaited(m)
          THEN /\ Goes(m.call, Erred(m.call, TRUE), net \ {m})
               /\ untidy' = IF m.kind \in {"commit", "cancel"} THEN untidy \cup {m.call} ELSE untidy
          ELSE net' = net \ {m} /\ UNCHANGED <<call, untidy>>
    /\ UNCHANGED <<users, session>>

\* RoleLogic forgets a session, at any time.
Expire ==
    /\ session # NoSession
    /\ session' = NoSession
    /\ UNCHANGED <<users, net, call, untidy>>

Answer(m) ==
    \/ ReplaceUsers(m) \/ StartUpload(m) \/ UploadChunk(m)
    \/ CommitUpload(m) \/ CancelUpload(m) \/ Refuse(m)

Next ==
    \/ \E c \in Calls : Begin(c) \/ TimeOut(c) \/ Crash(c)
    \/ \E m \in net : Answer(m)
    \/ Expire

Spec == Init /\ [][Next]_vars

\* The clock of the HTTP client runs.
FairSpec == Spec /\ \A c \in Calls : WF_vars(TimeOut(c))

-----------------------------------------------------------------------------
(* Properties                                                              *)

Fate(at) == CASE at = "new"     -> "new"
              [] at \in Waiting -> "open"
              [] at = "ok"      -> "done"
              [] OTHER          -> at

Abstract == INSTANCE Replacement WITH
    Lists <- SUBSET Chunk,
    want  <- [c \in Calls |-> List(c)],
    state <- [c \in Calls |-> Fate(call[c].at)]

\* Whatever the transport, and however requests are lost, delayed, reordered
\* or refused: RoleLogic's list is always one that some call brought, whole;
\* Ok means taken, and a chunk that failed means never taken.
ReplacesAtomically == Abstract!Spec

\* The client leaves a session open that nobody will close or commit only
\* where it has no answer or a refusal: to the start, the commit or the
\* cancel (or died).  A failed chunk by itself leaves none.
NoStraySession ==
    session # NoSession => call[session.id].at \in Waiting \/ session.id \in untidy

\* No answer is awaited for ever: every call ends, and with it the config_sync
\* that made it.
CallsEnd == \A c \in Calls : call[c].at \in Waiting ~> call[c].at \in Ended
=============================================================================
