--------------------------- MODULE LinkingProofs ---------------------------
(***************************************************************************)
(* Who owns an account, proved of the linking flow for any number of       *)
(* identities, accounts, modes, states and processes.                      *)
(*                                                                         *)
(* First what a step does to the process that takes it, then four          *)
(* invariants, each on top of the ones before: types, states that are good *)
(* for one callback, pairs that come from flows, and the row locks that    *)
(* make an account the property of one identity.                           *)
(***************************************************************************)
EXTENDS Linking, FiniteSetTheorems, TLAPS

-----------------------------------------------------------------------------
(* What is true of a process on its own                                    *)

Writing       == {"token", "modes"}
InTransaction == {"upsert"} \cup Writing
Authorised    == {"fetch", "cut"} \cup InTransaction

\* What it has filled in by the time it is where it is.
Shape(r) ==
    /\ r.at # "idle" => r.discord \in Discords
    /\ r.at \in {"exchange"} \cup Authorised => r.osu \in Accounts
    /\ r.at \notin InTransaction => r.cut = {}
    /\ r.wrote <=> r.at \in Writing

\* Its token was made, is no longer a state, and says who came back.
Flow(r) ==
    /\ r.token # None => made[r.token] # None /\ states[r.token] = None
    /\ r.at = "exchange" => r.token \in Tokens /\ made[r.token] = r.discord

TokensSound ==
    /\ \A t \in Tokens : states[t] # None => states[t] = made[t]
    /\ \A p \in Procs : Shape(proc[p]) /\ Flow(proc[p])
    /\ OneCallbackPerState

LinkInv == TypeOK /\ TokensSound

-----------------------------------------------------------------------------
(* What a step does to the process that takes it                           *)

\* Only p moves.
Alone(p) == /\ proc' \in [Procs -> Proc]
            /\ \A q \in Procs : q # p => proc'[q] = proc[q]

\* p goes on, with what it had.
GoesOn(p, at) == /\ Alone(p)
                 /\ proc'[p].at = at
                 /\ proc'[p].discord = proc[p].discord
                 /\ proc'[p].osu = proc[p].osu
                 /\ proc'[p].token = proc[p].token

KeepsRows(p) == proc'[p].cut = proc[p].cut /\ proc'[p].wrote = proc[p].wrote

\* p is out of its transaction.
LetsGo(p) == /\ Alone(p)
             /\ proc'[p].at \in {"idle", "ok", "failed"}
             /\ proc'[p].at # "idle" => proc'[p].discord \in Discords
             /\ proc'[p].token \in {None, proc[p].token}
             /\ proc'[p].cut = {}
             /\ proc'[p].wrote = FALSE

\* p begins something.
Begins(p, at) == /\ Alone(p)
                 /\ proc[p].at = "idle"
                 /\ proc'[p].at = at
                 /\ proc'[p].cut = {}
                 /\ proc'[p].wrote = FALSE

\* Zero is a fact, and a process may be idle.
LEMMA IdleType == 0 \in Fact /\ Idle \in Proc
<1>1. 0 \in Fact
  BY MaxFactAssumption DEF Fact
<1>2. QED
  BY <1>1 DEF Idle, Proc, At, Kind

\* The fields of a process.
LEMMA ProcFields ==
    ASSUME NEW r \in Proc
    PROVE  /\ r.at \in At
           /\ r.kind \in Kind
           /\ r.discord \in Discords \cup {None}
           /\ r.osu \in Accounts \cup {None}
           /\ r.token \in Tokens \cup {None}
           /\ r.seen \in Fact
           /\ r.cut \subseteq Discords
           /\ r.wrote \in BOOLEAN
           /\ r.todo \subseteq Modes
           /\ r.got \in [Modes -> Fact \cup {None}]
BY DEF Proc

\* A failed step lets go of everything.
LEMMA FailLetsGo ==
    ASSUME LinkInv, NEW p \in Procs, proc[p].at # "idle", Fail(p)
    PROVE  LetsGo(p)
<1>1. proc[p].discord \in Discords
  BY DEF LinkInv, TokensSound, Shape
<1>2. [Idle EXCEPT !.at = "failed", !.kind = "refresh", !.discord = proc[p].discord] \in Proc
  BY <1>1, IdleType DEF Proc, At, Kind
<1>3. QED
  BY <1>1, <1>2, IdleType DEF Fail, LetsGo, Alone, LinkInv, TypeOK, Idle

LEMMA EndLetsGo ==
    ASSUME LinkInv, NEW p \in Procs, End(p)
    PROVE  LetsGo(p)
BY IdleType DEF End, LetsGo, Alone, LinkInv, TypeOK, Idle

\* r has what proc[p] had.
KeptBy(p, r) == r.discord = proc[p].discord /\ r.osu = proc[p].osu /\ r.token = proc[p].token

\* The record that a step puts in the place of proc[p].
LEMMA Moves ==
    ASSUME LinkInv, NEW p \in Procs, NEW r \in Proc, proc' = [proc EXCEPT ![p] = r], KeptBy(p, r)
    PROVE  GoesOn(p, r.at) /\ proc'[p] = r
BY DEF GoesOn, Alone, LinkInv, TypeOK, KeptBy

LEMMA GotoGoesOn ==
    ASSUME LinkInv, NEW p \in Procs, NEW at \in At, Goto(p, at)
    PROVE  GoesOn(p, at) /\ KeepsRows(p)
<1> DEFINE r == [proc[p] EXCEPT !.at = at]
<1>1. r \in Proc /\ KeptBy(p, r) /\ r.at = at /\ r.cut = proc[p].cut /\ r.wrote = proc[p].wrote
  BY DEF LinkInv, TypeOK, Proc, KeptBy
<1>2. proc' = [proc EXCEPT ![p] = r]
  BY DEF Goto
<1>3. QED
  BY <1>1, <1>2, Moves DEF KeepsRows

LEMMA CallbackBegins ==
    ASSUME LinkInv, NEW p \in Procs, NEW t \in Tokens, NEW o \in Accounts, Callback(p, t, o)
    PROVE  /\ Begins(p, "exchange")
           /\ proc'[p].discord = states[t]
           /\ proc'[p].osu = o
           /\ proc'[p].token = t
<1>1. states[t] \in Discords
  BY DEF Callback, LinkInv, TypeOK
<1>2. [Idle EXCEPT !.at = "exchange", !.discord = states[t], !.osu = o, !.token = t] \in Proc
  BY <1>1, IdleType DEF Proc, At
<1>3. QED
  BY <1>1, <1>2 DEF Callback, Begins, Alone, LinkInv, TypeOK, Idle

LEMMA PickBegins ==
    ASSUME LinkInv, NEW p \in Procs, NEW d \in Discords, Pick(p, d)
    PROVE  /\ Begins(p, "fetch")
           /\ proc'[p].discord = d
           /\ proc'[p].osu = user[d].osu
           /\ proc'[p].token = None
           /\ user[d].osu \in Accounts
<1>1. user[d].osu \in Accounts
  BY DEF Pick, LinkInv, TypeOK, User
<1>2. [Idle EXCEPT !.at = "fetch", !.kind = "refresh", !.discord = d, !.osu = user[d].osu] \in Proc
  BY <1>1, IdleType DEF Proc, At, Kind
<1>3. QED
  BY <1>1, <1>2 DEF Pick, Begins, Alone, LinkInv, TypeOK, Idle

LEMMA UnlinkBegins ==
    ASSUME LinkInv, NEW p \in Procs, NEW d \in Discords, Unlink(p, d)
    PROVE  /\ Begins(p, "enqueue")
           /\ proc'[p].discord = d
           /\ proc'[p].token = None
<1>1. [Idle EXCEPT !.at = "enqueue", !.kind = "unlink", !.discord = d] \in Proc
  BY IdleType DEF Proc, At, Kind
<1>2. QED
  BY <1>1 DEF Unlink, Begins, Alone, LinkInv, TypeOK, Idle

LEMMA ExchangeGoesOn ==
    ASSUME LinkInv, NEW p \in Procs, Exchange(p)
    PROVE  \/ /\ GoesOn(p, "cut") /\ KeepsRows(p)
              /\ brought' = brought \cup {<<made[proc[p].token], proc[p].osu>>}
           \/ LetsGo(p) /\ brought' = brought
<1>1. live[proc[p].osu] \in Fact /\ proc[p] \in Proc
  BY DEF Exchange, LinkInv, TypeOK, TokensSound, Shape
<1>2. CASE /\ proc' = [proc EXCEPT ![p].at = "cut", ![p].seen = live[proc[p].osu]]
           /\ brought' = brought \cup {<<made[proc[p].token], proc[p].osu>>}
  <2> DEFINE r == [proc[p] EXCEPT !.at = "cut", !.seen = live[proc[p].osu]]
  <2>1. r \in Proc /\ KeptBy(p, r) /\ r.at = "cut" /\ r.cut = proc[p].cut /\ r.wrote = proc[p].wrote
    BY <1>1 DEF Proc, At, KeptBy
  <2>2. proc' = [proc EXCEPT ![p] = r]
    BY <1>1, <1>2 DEF LinkInv, TypeOK
  <2>3. GoesOn(p, "cut") /\ KeepsRows(p)
    <3> HIDE DEF r
    <3>1. QED
      BY <2>1, <2>2, Moves DEF KeepsRows
  <2>4. QED
    BY <2>3, <1>2
<1>3. QED
  <2>1. CASE Fail(p) /\ brought' = brought
    BY <2>1, FailLetsGo DEF Exchange
  <2>2. QED
    BY <1>2, <2>1 DEF Exchange

LEMMA FetchProfileGoesOn ==
    ASSUME LinkInv, NEW p \in Procs, FetchProfile(p)
    PROVE  (GoesOn(p, "cut") /\ KeepsRows(p)) \/ LetsGo(p)
<1>1. live[proc[p].osu] \in Fact /\ proc[p] \in Proc
  BY DEF FetchProfile, LinkInv, TypeOK, TokensSound, Shape, Authorised
<1>2. CASE proc' = [proc EXCEPT ![p].at = "cut", ![p].seen = live[proc[p].osu]]
  <2> DEFINE r == [proc[p] EXCEPT !.at = "cut", !.seen = live[proc[p].osu]]
  <2>1. r \in Proc /\ KeptBy(p, r) /\ r.at = "cut" /\ r.cut = proc[p].cut /\ r.wrote = proc[p].wrote
    BY <1>1 DEF Proc, At, KeptBy
  <2>2. proc' = [proc EXCEPT ![p] = r]
    BY <1>1, <1>2 DEF LinkInv, TypeOK
  <2>3. GoesOn(p, "cut") /\ KeepsRows(p)
    <3> HIDE DEF r
    <3>1. QED
      BY <2>1, <2>2, Moves DEF KeepsRows
  <2>4. QED
    BY <2>3
<1>3. QED
  BY <1>2, FailLetsGo DEF FetchProfile

LEMMA CutGoesOn ==
    ASSUME LinkInv, NEW p \in Procs, Cut(p)
    PROVE  /\ GoesOn(p, "upsert")
           /\ proc'[p].cut = Owners(proc[p].osu) \ {proc[p].discord}
           /\ proc'[p].wrote = proc[p].wrote
<1>1. Owners(proc[p].osu) \ {proc[p].discord} \in SUBSET Discords
  BY DEF Owners
<1>2. QED
  BY <1>1 DEF Cut, GoesOn, Alone, LinkInv, TypeOK, Proc, At

LEMMA UpsertGoesOn ==
    ASSUME LinkInv, NEW p \in Procs, Upsert(p)
    PROVE  \/ /\ ~Clashes(p)
              /\ \E at \in Writing : GoesOn(p, at)
              /\ proc'[p].cut = proc[p].cut
              /\ proc'[p].wrote = TRUE
           \/ LetsGo(p)
<1>1. CASE Clashes(p)
  BY <1>1, FailLetsGo DEF Upsert
<1>2. CASE ~Clashes(p)
  <2> DEFINE at == IF proc[p].kind = "callback" THEN "token" ELSE "modes"
  <2>1. proc' = [proc EXCEPT ![p].wrote = TRUE, ![p].at = at, ![p].todo = Modes]
    BY <1>2 DEF Upsert
  <2>2. at \in Writing /\ at \in At
    BY DEF Writing, At
  <2>3. HIDE DEF at
  <2> DEFINE r == [proc[p] EXCEPT !.wrote = TRUE, !.at = at, !.todo = Modes]
  <2>4. r \in Proc /\ KeptBy(p, r) /\ r.at = at /\ r.cut = proc[p].cut /\ r.wrote = TRUE
    <3>1. proc[p] \in Proc
      BY DEF LinkInv, TypeOK
    <3>2. QED
      BY <2>2, <3>1 DEF Proc, KeptBy
  <2>5. proc' = [proc EXCEPT ![p] = r]
    BY <2>1 DEF LinkInv, TypeOK
  <2>6. GoesOn(p, at) /\ proc'[p] = r
    <3> HIDE DEF r
    <3>1. QED
      BY <2>4, <2>5, Moves
  <2>7. QED
    BY <1>2, <2>2, <2>4, <2>6
<1>3. QED
  BY <1>1, <1>2

LEMMA AppTokenGoesOn ==
    ASSUME LinkInv, NEW p \in Procs, AppToken(p)
    PROVE  (GoesOn(p, "modes") /\ KeepsRows(p)) \/ LetsGo(p)
BY FailLetsGo, GotoGoesOn DEF AppToken, At

LEMMA FetchModeGoesOn ==
    ASSUME LinkInv, NEW p \in Procs, NEW m \in Modes, FetchMode(p, m)
    PROVE  GoesOn(p, "modes") /\ KeepsRows(p)
<1>1. live[proc[p].osu] \in Fact /\ proc[p] \in Proc
  BY DEF FetchMode, LinkInv, TypeOK, TokensSound, Shape, Authorised, InTransaction, Writing
<1>2. CASE proc' = [proc EXCEPT ![p].todo = @ \ {m}, ![p].got[m] = live[proc[p].osu]]
  <2> DEFINE got == [proc[p].got EXCEPT ![m] = live[proc[p].osu]]
             r   == [proc[p] EXCEPT !.todo = proc[p].todo \ {m}, !.got = got]
  <2>1. got \in [Modes -> Fact \cup {None}] /\ proc[p].todo \ {m} \in SUBSET Modes
    BY <1>1, ProcFields
  <2>2. r \in Proc /\ KeptBy(p, r) /\ r.at = proc[p].at
        /\ r.cut = proc[p].cut /\ r.wrote = proc[p].wrote
    <3> HIDE DEF got
    <3>1. QED
      BY <1>1, <2>1 DEF Proc, KeptBy
  <2>3. proc' = [proc EXCEPT ![p] = r]
    BY <1>1, <1>2 DEF LinkInv, TypeOK
  <2>4. GoesOn(p, proc[p].at) /\ KeepsRows(p)
    <3> HIDE DEF r
    <3>1. QED
      BY <2>2, <2>3, Moves DEF KeepsRows
  <2>5. QED
    BY <2>4 DEF FetchMode
<1>3. CASE proc' = [proc EXCEPT ![p].todo = @ \ {m}]
  <2> DEFINE r == [proc[p] EXCEPT !.todo = proc[p].todo \ {m}]
  <2>1. r \in Proc /\ KeptBy(p, r) /\ r.at = proc[p].at
        /\ r.cut = proc[p].cut /\ r.wrote = proc[p].wrote
    BY <1>1 DEF Proc, KeptBy
  <2>2. proc' = [proc EXCEPT ![p] = r]
    BY <1>3
  <2>3. GoesOn(p, proc[p].at) /\ KeepsRows(p)
    <3> HIDE DEF r
    <3>1. QED
      BY <2>1, <2>2, Moves DEF KeepsRows
  <2>4. QED
    BY <2>3 DEF FetchMode
<1>4. QED
  BY <1>2, <1>3 DEF FetchMode

LEMMA CommitGoesOn ==
    ASSUME LinkInv, NEW p \in Procs, Commit(p)
    PROVE  /\ GoesOn(p, "enqueue")
           /\ proc'[p].cut = {}
           /\ proc'[p].wrote = FALSE
<1> DEFINE r == [proc[p] EXCEPT !.at = "enqueue", !.cut = {}, !.wrote = FALSE]
<1>1. r \in Proc /\ KeptBy(p, r) /\ r.at = "enqueue" /\ r.cut = {} /\ r.wrote = FALSE
  <2>1. proc[p] \in Proc
    BY DEF LinkInv, TypeOK
  <2>2. QED
    BY <2>1 DEF Proc, At, KeptBy
<1>2. proc' = [proc EXCEPT ![p] = r]
  BY DEF Commit, LinkInv, TypeOK
<1>3. QED
  <2> HIDE DEF r
  <2>1. QED
    BY <1>1, <1>2, Moves

LEMMA EnqueueLetsGo ==
    ASSUME LinkInv, NEW p \in Procs, Enqueue(p)
    PROVE  LetsGo(p)
<1>1. CASE Goto(p, "ok")
  BY <1>1, GotoGoesOn
     DEF Enqueue, GoesOn, KeepsRows, LetsGo, LinkInv, TokensSound, Shape, At, InTransaction, Writing
<1>2. QED
  BY <1>1, FailLetsGo, EndLetsGo DEF Enqueue

-----------------------------------------------------------------------------
(* Types, and states that are good for one callback                        *)

LEMMA FaultType ==
    ASSUME TypeOK, Fault \/ UNCHANGED faults
    PROVE  faults' \in 0..MaxFaults
BY MaxFaultsAssumption DEF TypeOK, Fault

\* A process that lets go, or goes on past the exchange, leaves the tokens be.
LEMMA TokensStay ==
    ASSUME LinkInv, NEW p \in Procs, Alone(p), UNCHANGED <<states, made>>,
           proc'[p].token \in {None, proc[p].token}, proc'[p].at # "exchange", Shape(proc[p])'
    PROVE  TokensSound'
<1>1. \A q \in Procs : Shape(proc[q])' /\ Flow(proc[q])'
  <2>1. TAKE q \in Procs
  <2>2. CASE q = p
    BY <2>2 DEF LinkInv, TokensSound, Shape, Flow
  <2>3. CASE q # p
    BY <2>3 DEF Alone, LinkInv, TokensSound, Shape, Flow
  <2>4. QED
    BY <2>2, <2>3
<1>2. OneCallbackPerState'
  BY DEF LinkInv, TokensSound, OneCallbackPerState, Alone
<1>3. QED
  BY <1>1, <1>2 DEF LinkInv, TokensSound

LEMMA GoesOnTokens ==
    ASSUME LinkInv, NEW p \in Procs, NEW at \in Authorised, GoesOn(p, at), KeepsRows(p),
           proc[p].at \in {"exchange"} \cup Authorised, at \in Writing <=> proc[p].at \in Writing,
           proc[p].at \in InTransaction => at \in InTransaction, UNCHANGED <<states, made>>
    PROVE  TokensSound'
<1>1. Shape(proc[p])'
  BY DEF LinkInv, TokensSound, Shape, GoesOn, KeepsRows, Authorised, InTransaction, Writing
<1>2. QED
  BY <1>1, TokensStay DEF GoesOn, Authorised, InTransaction, Writing

LEMMA LetsGoTokens ==
    ASSUME LinkInv, NEW p \in Procs, LetsGo(p), UNCHANGED <<states, made>>
    PROVE  TokensSound'
<1>1. Shape(proc[p])'
  BY DEF Shape, LetsGo, Authorised, InTransaction, Writing
<1>2. QED
  BY <1>1, TokensStay DEF LetsGo

\* Types, where nothing is written to Postgres.
LEMMA TypesStay ==
    ASSUME LinkInv, proc' \in [Procs -> Proc], UNCHANGED <<tables, live, made, synced, cutoff>>,
           brought' \subseteq Discords \X Accounts, Fault \/ UNCHANGED faults
    PROVE  TypeOK'
BY FaultType DEF LinkInv, TypeOK, tables

LEMMA ExchangeTyped ==
    ASSUME LinkInv, NEW p \in Procs, Exchange(p)
    PROVE  LinkInv'
<1>1. made[proc[p].token] \in Discords /\ proc[p].osu \in Accounts
  BY DEF LinkInv, TokensSound, Exchange, Shape, Flow, Authorised
<1>2. brought' \subseteq Discords \X Accounts
  BY <1>1 DEF Exchange, LinkInv, TypeOK
<1>3. TypeOK'
  BY <1>2, TypesStay, ExchangeGoesOn DEF Exchange, GoesOn, LetsGo, Alone
<1>4. UNCHANGED <<states, made>> /\ proc[p].at = "exchange"
  BY DEF Exchange, tables
<1>5. TokensSound'
  <2>1. CASE GoesOn(p, "cut") /\ KeepsRows(p)
    BY <2>1, <1>4, GoesOnTokens DEF Authorised, InTransaction, Writing
  <2>2. CASE LetsGo(p)
    BY <2>2, <1>4, LetsGoTokens
  <2>3. QED
    BY <2>1, <2>2, ExchangeGoesOn
<1>6. QED
  BY <1>3, <1>5 DEF LinkInv

LEMMA FetchProfileTyped ==
    ASSUME LinkInv, NEW p \in Procs, FetchProfile(p)
    PROVE  LinkInv'
<1>1. TypeOK'
  BY TypesStay, FetchProfileGoesOn DEF FetchProfile, GoesOn, LetsGo, Alone, history, LinkInv, TypeOK
<1>2. UNCHANGED <<states, made>> /\ proc[p].at = "fetch"
  BY DEF FetchProfile, tables, history
<1>3. CASE GoesOn(p, "cut") /\ KeepsRows(p)
  BY <1>3, <1>1, <1>2, GoesOnTokens DEF LinkInv, Authorised, InTransaction, Writing
<1>4. CASE LetsGo(p)
  BY <1>4, <1>1, <1>2, LetsGoTokens DEF LinkInv
<1>5. QED
  BY <1>3, <1>4, FetchProfileGoesOn

LEMMA CutTyped ==
    ASSUME LinkInv, NEW p \in Procs, Cut(p)
    PROVE  LinkInv'
<1>1. TypeOK'
  BY TypesStay, CutGoesOn DEF Cut, GoesOn, Alone, history, LinkInv, TypeOK
<1>2. UNCHANGED <<states, made>> /\ proc[p].at = "cut"
  BY DEF Cut, tables, history
<1>3. Shape(proc[p])'
  BY <1>2, CutGoesOn
     DEF LinkInv, TokensSound, Shape, GoesOn, Authorised, InTransaction, Writing
<1>4. QED
  BY <1>1, <1>2, <1>3, CutGoesOn, TokensStay DEF LinkInv, GoesOn

LEMMA UpsertTyped ==
    ASSUME LinkInv, NEW p \in Procs, Upsert(p)
    PROVE  LinkInv'
<1>1. TypeOK'
  BY TypesStay, UpsertGoesOn DEF Upsert, GoesOn, LetsGo, Alone, history, LinkInv, TypeOK
<1>2. UNCHANGED <<states, made>> /\ proc[p].at = "upsert"
  BY DEF Upsert, tables, history
<1>3. ASSUME NEW at \in Writing, GoesOn(p, at), proc'[p].cut = proc[p].cut, proc'[p].wrote = TRUE
      PROVE  LinkInv'
  <2>1. Shape(proc[p])'
    BY <1>2, <1>3 DEF LinkInv, TokensSound, Shape, GoesOn, Authorised, InTransaction, Writing
  <2>2. QED
    BY <1>1, <1>2, <1>3, <2>1, TokensStay DEF LinkInv, GoesOn, Writing
<1>4. CASE LetsGo(p)
  BY <1>1, <1>2, <1>4, LetsGoTokens DEF LinkInv
<1>5. QED
  BY <1>3, <1>4, UpsertGoesOn

LEMMA AppTokenTyped ==
    ASSUME LinkInv, NEW p \in Procs, AppToken(p)
    PROVE  LinkInv'
<1>1. TypeOK'
  BY TypesStay, AppTokenGoesOn DEF AppToken, GoesOn, LetsGo, Alone, history, LinkInv, TypeOK
<1>2. UNCHANGED <<states, made>> /\ proc[p].at = "token"
  BY DEF AppToken, tables, history
<1>3. CASE GoesOn(p, "modes") /\ KeepsRows(p)
  BY <1>3, <1>1, <1>2, GoesOnTokens DEF LinkInv, Authorised, InTransaction, Writing
<1>4. CASE LetsGo(p)
  BY <1>4, <1>1, <1>2, LetsGoTokens DEF LinkInv
<1>5. QED
  BY <1>3, <1>4, AppTokenGoesOn

LEMMA FetchModeTyped ==
    ASSUME LinkInv, NEW p \in Procs, NEW m \in Modes, FetchMode(p, m)
    PROVE  LinkInv'
<1>1. TypeOK'
  BY TypesStay, FetchModeGoesOn DEF FetchMode, GoesOn, Alone, history, LinkInv, TypeOK
<1>2. UNCHANGED <<states, made>> /\ proc[p].at = "modes"
  BY DEF FetchMode, tables, history
<1>3. QED
  BY <1>1, <1>2, FetchModeGoesOn, GoesOnTokens DEF LinkInv, Authorised, InTransaction, Writing

\* The statistics of one account, as they come out of a transaction.
LEMMA StatsAfterType ==
    ASSUME LinkInv, NEW p \in Procs, proc[p].osu \in Accounts
    PROVE  StatsAfter(p) \in [Modes -> Fact \cup {None}]
<1>1. proc[p].got \in [Modes -> Fact \cup {None}]
  BY ProcFields DEF LinkInv, TypeOK
<1>2. stats[proc[p].osu] \in [Modes -> Fact \cup {None}]
  BY DEF LinkInv, TypeOK
<1>3. QED
  BY <1>1, <1>2 DEF StatsAfter

LEMMA CommitTyped ==
    ASSUME LinkInv, NEW p \in Procs, Commit(p)
    PROVE  LinkInv'
<1>1. /\ proc[p].discord \in Discords /\ proc[p].osu \in Accounts
      /\ proc[p].seen \in Fact /\ proc[p].cut \subseteq Discords
  BY ProcFields DEF Commit, LinkInv, TypeOK, TokensSound, Shape, Authorised, InTransaction, Writing
<1>2. user' \in [Discords -> User \cup {None}]
  <2>1. [osu |-> proc[p].osu, profile |-> proc[p].seen, due |-> FALSE] \in User
    BY <1>1 DEF User
  <2>2. QED
    BY <2>1 DEF Commit, LinkInv, TypeOK
<1>3. stats' \in [Accounts -> [Modes -> Fact \cup {None}]]
  BY <1>1, StatsAfterType DEF Commit, LinkInv, TypeOK
<1>4. cutoff' \subseteq Discords
  BY <1>1 DEF Commit, LinkInv, TypeOK
<1>5. TypeOK'
  BY <1>2, <1>3, <1>4, CommitGoesOn DEF Commit, GoesOn, Alone, LinkInv, TypeOK
<1>6. Shape(proc[p])'
  BY <1>1, CommitGoesOn DEF Shape, GoesOn, Authorised, InTransaction, Writing
<1>7. QED
  BY <1>5, <1>6, CommitGoesOn, TokensStay DEF Commit, LinkInv, GoesOn

LEMMA EnqueueTyped ==
    ASSUME LinkInv, NEW p \in Procs, Enqueue(p)
    PROVE  LinkInv'
<1>1. proc[p].discord \in Discords
  BY DEF Enqueue, LinkInv, TokensSound, Shape
<1>2. TypeOK'
  BY <1>1, EnqueueLetsGo, FaultType DEF Enqueue, LetsGo, Alone, history, LinkInv, TypeOK
<1>3. QED
  BY <1>2, EnqueueLetsGo, LetsGoTokens DEF Enqueue, LinkInv, history

LEMMA StartFlowTyped ==
    ASSUME LinkInv, NEW d \in Discords, NEW t \in Tokens, StartFlow(d, t)
    PROVE  LinkInv'
<1>1. d # None
  BY NoneAssumption
<1>2. TypeOK'
  BY DEF StartFlow, LinkInv, TypeOK
<1>3. \A u \in Tokens : states'[u] # None => states'[u] = made'[u]
  BY DEF StartFlow, LinkInv, TypeOK, TokensSound
<1>4. \A p \in Procs : Shape(proc[p])' /\ Flow(proc[p])'
  <2>1. TAKE p \in Procs
  <2>2. Shape(proc[p])'
    BY DEF StartFlow, LinkInv, TokensSound, Shape
  <2>3. proc[p].token # None => proc[p].token # t
    BY DEF StartFlow, LinkInv, TokensSound, Flow
  <2>4. Flow(proc[p])'
    <3>1. proc[p].at = "exchange" => proc[p].token # t
      BY <1>1, NoneAssumption DEF StartFlow, LinkInv, TokensSound, Flow, Shape
    <3>2. QED
      BY <2>3, <3>1 DEF StartFlow, LinkInv, TypeOK, TokensSound, Flow
  <2>5. QED
    BY <2>2, <2>4
<1>5. OneCallbackPerState'
  BY DEF StartFlow, LinkInv, TokensSound, OneCallbackPerState
<1>6. QED
  BY <1>2, <1>3, <1>4, <1>5 DEF LinkInv, TokensSound

LEMMA ExpireTyped ==
    ASSUME LinkInv, NEW t \in Tokens, Expire(t)
    PROVE  LinkInv'
<1>1. TypeOK'
  BY DEF Expire, history, LinkInv, TypeOK
<1>2. \A u \in Tokens : states'[u] # None => states'[u] = made'[u]
  BY DEF Expire, history, LinkInv, TypeOK, TokensSound
<1>3. \A p \in Procs : Shape(proc[p])' /\ Flow(proc[p])'
  BY DEF Expire, history, LinkInv, TypeOK, TokensSound, Shape, Flow
<1>4. OneCallbackPerState'
  BY DEF Expire, LinkInv, TokensSound, OneCallbackPerState
<1>5. QED
  BY <1>1, <1>2, <1>3, <1>4 DEF LinkInv, TokensSound

\* The DELETE ... RETURNING that begins a callback takes the state, so that
\* the token is nobody else's.
LEMMA CallbackTyped ==
    ASSUME LinkInv, NEW p \in Procs, NEW t \in Tokens, NEW o \in Accounts, Callback(p, t, o)
    PROVE  LinkInv'
<1>1. /\ states[t] \in Discords /\ states[t] = made[t] /\ made[t] # None
      /\ states' = [states EXCEPT ![t] = None] /\ made' = made
  BY DEF Callback, ConsumeState, history, LinkInv, TypeOK, TokensSound
<1>2. TypeOK'
  BY <1>1, CallbackBegins DEF Callback, Begins, Alone, history, LinkInv, TypeOK
<1>3. \A u \in Tokens : states'[u] # None => states'[u] = made'[u]
  BY <1>1 DEF LinkInv, TypeOK, TokensSound
<1>4. states'[t] = None
  BY <1>1 DEF LinkInv, TypeOK
<1>5. Shape(proc[p])' /\ Flow(proc[p])'
  BY <1>1, <1>4, CallbackBegins DEF Begins, Shape, Flow, Authorised, InTransaction, Writing
<1>6. ASSUME NEW q \in Procs, q # p
      PROVE  Shape(proc[q])' /\ Flow(proc[q])' /\ (proc[q].token # None => proc[q].token # t)
  <2>1. proc'[q] = proc[q]
    BY <1>6, CallbackBegins DEF Begins, Alone
  <2>2. Shape(proc[q]) /\ Flow(proc[q]) /\ proc[q] \in Proc
    BY DEF LinkInv, TypeOK, TokensSound
  <2>3. proc[q].token # None => proc[q].token # t
    BY <2>2, <1>1, NoneAssumption DEF Flow
  <2>4. Flow(proc[q])'
    BY <2>1, <2>2, <1>1 DEF Flow, LinkInv, TypeOK
  <2>5. QED
    BY <2>1, <2>2, <2>3, <2>4 DEF Shape
<1>7. OneCallbackPerState'
  <2>1. SUFFICES ASSUME NEW q \in Procs, NEW r \in Procs, q # r, proc'[q].token # None
                 PROVE  proc'[q].token # proc'[r].token
    BY DEF OneCallbackPerState
  <2>2. \A u \in Procs : u # p => proc'[u] = proc[u]
    BY CallbackBegins DEF Begins, Alone
  <2>3. CASE q = p
    BY <2>1, <2>2, <2>3, <1>6, CallbackBegins
  <2>4. CASE r = p
    BY <2>1, <2>2, <2>4, <1>6, CallbackBegins
  <2>5. CASE q # p /\ r # p
    BY <2>1, <2>2, <2>5 DEF LinkInv, TokensSound, OneCallbackPerState
  <2>6. QED
    BY <2>3, <2>4, <2>5
<1>8. QED
  BY <1>2, <1>3, <1>5, <1>6, <1>7 DEF LinkInv, TokensSound

LEMMA DeadlockVictimTyped ==
    ASSUME LinkInv, NEW p \in Procs, DeadlockVictim(p)
    PROVE  LinkInv' /\ LetsGo(p)
<1>1. LetsGo(p)
  BY FailLetsGo DEF DeadlockVictim, WaitsFor
<1>2. QED
  BY <1>1, LetsGoTokens, TypesStay
     DEF DeadlockVictim, LetsGo, Alone, history, tables, LinkInv, TypeOK

LEMMA CrashTyped ==
    ASSUME LinkInv, NEW p \in Procs, Crash(p)
    PROVE  LinkInv' /\ LetsGo(p)
<1>1. LetsGo(p)
  BY EndLetsGo DEF Crash
<1>2. QED
  BY <1>1, LetsGoTokens, TypesStay DEF Crash, LetsGo, Alone, history, tables, LinkInv, TypeOK

LEMMA UnlinkTyped ==
    ASSUME LinkInv, NEW p \in Procs, NEW d \in Discords, Unlink(p, d)
    PROVE  LinkInv'
<1>1. user' \in [Discords -> User \cup {None}]
  BY DEF Unlink, LinkInv, TypeOK
<1>2. stats' \in [Accounts -> [Modes -> Fact \cup {None}]]
  BY DEF Unlink, LinkInv, TypeOK
<1>3. TypeOK'
  BY <1>1, <1>2, UnlinkBegins DEF Unlink, Begins, Alone, LinkInv, TypeOK
<1>4. Shape(proc[p])'
  BY UnlinkBegins DEF Begins, Shape, Authorised, InTransaction, Writing
<1>5. QED
  BY <1>3, <1>4, UnlinkBegins, TokensStay DEF Unlink, Begins, LinkInv

LEMMA PickTyped ==
    ASSUME LinkInv, NEW p \in Procs, NEW d \in Discords, Pick(p, d)
    PROVE  LinkInv'
<1>1. TypeOK'
  BY PickBegins, TypesStay DEF Pick, Begins, Alone, history, LinkInv, TypeOK
<1>2. Shape(proc[p])'
  BY PickBegins DEF Begins, Shape, Authorised, InTransaction, Writing
<1>3. QED
  BY <1>1, <1>2, PickBegins, TokensStay DEF Pick, Begins, history, tables, LinkInv

\* The UPDATEs of the schedule touch neither who owns what nor the profile.
SameFacts == /\ user' \in [Discords -> User \cup {None}]
             /\ \A d \in Discords : /\ user'[d] = None <=> user[d] = None
                                    /\ user'[d].osu = user[d].osu
                                    /\ user'[d].profile = user[d].profile

LEMMA DueIsNoFact ==
    ASSUME LinkInv, NEW d \in Discords, NEW b \in BOOLEAN, user[d] # None,
           user' = [user EXCEPT ![d].due = b]
    PROVE  SameFacts
<1> DEFINE r == [user[d] EXCEPT !.due = b]
<1>1. user[d] \in User
  BY DEF LinkInv, TypeOK
<1>2. r \in User /\ r.osu = user[d].osu /\ r.profile = user[d].profile
  BY <1>1 DEF User
<1>3. r # None
  BY <1>2, NoneAssumption
<1>4. user' = [user EXCEPT ![d] = r]
  OBVIOUS
<1>5. QED
  <2> HIDE DEF r
  <2>1. QED
    BY <1>2, <1>3, <1>4 DEF SameFacts, LinkInv, TypeOK

\* What a player_sync may see.
LEMMA ViewType ==
    ASSUME TypeOK, NEW d \in Discords
    PROVE  View(d) \in {None} \cup (Accounts \X Fact \X [Modes -> Fact \cup {None}])
BY DEF TypeOK, View, User

\* A step that only touches the schedule, or nothing of Postgres.
LEMMA ScheduleTyped ==
    ASSUME LinkInv, proc' = proc, UNCHANGED <<states, made, stats, brought, synced, cutoff, faults>>,
           SameFacts, live' \in [Accounts -> Fact], queue' \subseteq Discords
    PROVE  LinkInv'
<1>1. TypeOK'
  BY DEF LinkInv, TypeOK, SameFacts
<1>2. TokensSound'
  BY DEF LinkInv, TokensSound, Shape, Flow, OneCallbackPerState
<1>3. QED
  BY <1>1, <1>2 DEF LinkInv

LEMMA RescheduleTyped ==
    ASSUME LinkInv, NEW p \in Procs, Reschedule(p)
    PROVE  LinkInv' /\ LetsGo(p) /\ SameFacts
<1>1. LetsGo(p)
  BY EndLetsGo DEF Reschedule
<1>2. proc[p].discord \in Discords
  BY DEF Reschedule, LinkInv, TokensSound, Shape
<1>3. SameFacts
  <2>1. CASE user' = user
    BY <2>1 DEF SameFacts, LinkInv, TypeOK
  <2>2. CASE user[proc[p].discord] # None
    BY <2>2, <1>2, DueIsNoFact DEF Reschedule
  <2>3. QED
    BY <2>1, <2>2 DEF Reschedule
<1>4. TypeOK'
  BY <1>1, <1>3 DEF Reschedule, LetsGo, Alone, SameFacts, history, LinkInv, TypeOK
<1>5. QED
  BY <1>1, <1>3, <1>4, LetsGoTokens DEF Reschedule, history, LinkInv

LEMMA FallDueTyped ==
    ASSUME LinkInv, NEW d \in Discords, FallDue(d)
    PROVE  LinkInv' /\ SameFacts
<1>1. SameFacts
  BY DueIsNoFact DEF FallDue
<1>2. QED
  BY <1>1, ScheduleTyped DEF FallDue, history, LinkInv, TypeOK

LEMMA PlayerSyncTyped ==
    ASSUME LinkInv, NEW d \in Discords, PlayerSync(d)
    PROVE  LinkInv'
<1>1. TypeOK'
  BY ViewType DEF PlayerSync, LinkInv, TypeOK
<1>2. TokensSound'
  BY DEF PlayerSync, LinkInv, TokensSound, Shape, Flow, OneCallbackPerState
<1>3. QED
  BY <1>1, <1>2 DEF LinkInv

LEMMA DriftTyped ==
    ASSUME LinkInv, NEW o \in Accounts, Drift(o)
    PROVE  LinkInv'
<1>1. live[o] + 1 \in Fact
  BY MaxFactAssumption DEF Drift, Fact, LinkInv, TypeOK
<1>2. live' \in [Accounts -> Fact]
  BY <1>1 DEF Drift, LinkInv, TypeOK
<1>3. SameFacts
  BY DEF Drift, tables, SameFacts, LinkInv, TypeOK
<1>4. QED
  BY <1>2, <1>3, ScheduleTyped DEF Drift, tables, history, LinkInv, TypeOK

\* Whoever is linked to begin with has an account.
LEMMA InitOwned ==
    ASSUME Init
    PROVE  \E f \in Owned :
              /\ user = [d \in Discords |-> IF f[d] = None THEN None
                           ELSE [osu |-> f[d], profile |-> 0, due |-> FALSE]]
              /\ stats = [o \in Accounts |-> [m \in Modes |->
                           IF \E d \in Earlier : f[d] = o THEN 0 ELSE None]]
              /\ brought = {pair \in Discords \X Accounts : f[pair[1]] = pair[2]}
BY DEF Init

LEMMA InitTyped == Init => LinkInv
<1> SUFFICES ASSUME Init PROVE LinkInv
  OBVIOUS
<1>1. PICK f \in Owned :
         /\ user = [d \in Discords |-> IF f[d] = None THEN None
                      ELSE [osu |-> f[d], profile |-> 0, due |-> FALSE]]
         /\ stats = [o \in Accounts |-> [m \in Modes |->
                      IF \E d \in Earlier : f[d] = o THEN 0 ELSE None]]
         /\ brought = {pair \in Discords \X Accounts : f[pair[1]] = pair[2]}
  BY InitOwned
<1>2. user \in [Discords -> User \cup {None}]
  <2>1. ASSUME NEW d \in Discords, f[d] # None
        PROVE  [osu |-> f[d], profile |-> 0, due |-> FALSE] \in User
    BY <2>1, IdleType DEF Owned, User
  <2>2. QED
    BY <1>1, <2>1
<1>3. stats \in [Accounts -> [Modes -> Fact \cup {None}]]
  BY <1>1, IdleType
<1>4. TypeOK
  <2>1. brought \subseteq Discords \X Accounts
    BY <1>1
  <2>2. faults \in 0..MaxFaults
    BY MaxFaultsAssumption DEF Init
  <2>3. live \in [Accounts -> Fact] /\ proc \in [Procs -> Proc]
    BY IdleType DEF Init
  <2>4. synced \in [Discords -> {None} \cup (Accounts \X Fact \X [Modes -> Fact \cup {None}])]
    BY <1>2, <1>3 DEF Init, View, User
  <2>5. QED
    BY <1>2, <1>3, <2>1, <2>2, <2>3, <2>4 DEF Init, TypeOK
<1>5. TokensSound
  BY DEF Init, TokensSound, OneCallbackPerState, Idle, Shape, Flow,
         Authorised, InTransaction, Writing
<1>6. QED
  BY <1>4, <1>5 DEF LinkInv

LEMMA StepTyped == LinkInv /\ [Next]_vars => LinkInv'
<1> SUFFICES ASSUME LinkInv, [Next]_vars PROVE LinkInv'
  OBVIOUS
<1>1. CASE UNCHANGED vars
  <2>1. SameFacts
    BY <1>1 DEF vars, tables, SameFacts, LinkInv, TypeOK
  <2>2. QED
    BY <1>1, <2>1, ScheduleTyped DEF vars, tables, history, LinkInv, TypeOK
<1>2. ASSUME NEW p \in Procs, Run(p)
      PROVE  LinkInv'
  BY <1>2, ExchangeTyped, FetchProfileTyped, CutTyped, UpsertTyped, DeadlockVictimTyped,
     AppTokenTyped, CommitTyped, EnqueueTyped, RescheduleTyped, FetchModeTyped DEF Run
<1>3. QED
  BY <1>1, <1>2, CrashTyped, CallbackTyped, UnlinkTyped, PickTyped, StartFlowTyped,
     FallDueTyped, PlayerSyncTyped, ExpireTyped, DriftTyped DEF Next

\* The invariant under every other one of this module.
THEOREM LinkInvariant == Spec => []LinkInv
BY InitTyped, StepTyped, PTL DEF Spec

\* The tables, the states and the locals of every handler have their types.
THEOREM LinkTypeCorrect == Spec => []TypeOK
BY LinkInvariant, PTL DEF LinkInv

\* DELETE ... RETURNING: no two callbacks come back with the same state.
THEOREM StateTakenOnce == Spec => []OneCallbackPerState
BY LinkInvariant, PTL DEF LinkInv, TokensSound

-----------------------------------------------------------------------------
(* Pairs come from flows                                                   *)

FlowInv ==
    /\ PairsComeFromFlows
    /\ \A p \in Procs :
          proc[p].at \in Authorised => <<proc[p].discord, proc[p].osu>> \in brought

\* brought only grows: what is left to show of a step is what it writes, and
\* what the process that takes it will.
LEMMA BroughtStays ==
    ASSUME FlowInv, NEW p \in Procs, Alone(p), brought \subseteq brought',
           proc'[p].at \in Authorised => <<proc'[p].discord, proc'[p].osu>> \in brought',
           \A d \in Discords : user'[d] # None =>
               <<d, user'[d].osu>> \in brought' \/ (user[d] # None /\ user'[d].osu = user[d].osu)
    PROVE  FlowInv'
BY DEF FlowInv, PairsComeFromFlows, Alone

LEMMA LetsGoBrought ==
    ASSUME FlowInv, NEW p \in Procs, LetsGo(p), brought' = brought, user' = user \/ SameFacts
    PROVE  FlowInv'
BY BroughtStays DEF LetsGo, SameFacts, Authorised, InTransaction, Writing

LEMMA GoesOnBrought ==
    ASSUME FlowInv, NEW p \in Procs, NEW at, GoesOn(p, at), proc[p].at \in Authorised,
           brought' = brought, user' = user
    PROVE  FlowInv'
BY BroughtStays DEF GoesOn, FlowInv

\* The pair that a flow adds is the one that it goes on with.
LEMMA ExchangeBrought ==
    ASSUME LinkInv, FlowInv, NEW p \in Procs, Exchange(p)
    PROVE  FlowInv'
<1>1. made[proc[p].token] = proc[p].discord
  BY DEF LinkInv, TokensSound, Flow, Exchange
<1>2. user' = user
  BY DEF Exchange, tables
<1>3. CASE /\ GoesOn(p, "cut")
           /\ brought' = brought \cup {<<made[proc[p].token], proc[p].osu>>}
  BY <1>1, <1>2, <1>3, BroughtStays DEF GoesOn
<1>4. CASE LetsGo(p) /\ brought' = brought
  BY <1>2, <1>4, LetsGoBrought
<1>5. QED
  BY <1>3, <1>4, ExchangeGoesOn

LEMMA CommitBrought ==
    ASSUME LinkInv, FlowInv, NEW p \in Procs, Commit(p)
    PROVE  FlowInv'
<1>1. <<proc[p].discord, proc[p].osu>> \in brought
  BY DEF Commit, FlowInv, Authorised, InTransaction, Writing
<1>2. ASSUME NEW d \in Discords, user'[d] # None
      PROVE  <<d, user'[d].osu>> \in brought \/ (user[d] # None /\ user'[d].osu = user[d].osu)
  BY <1>1, <1>2 DEF Commit
<1>3. brought' = brought /\ GoesOn(p, "enqueue")
  BY CommitGoesOn DEF Commit
<1>4. QED
  BY <1>2, <1>3, BroughtStays DEF GoesOn, Authorised, InTransaction, Writing

LEMMA BeginBrought ==
    ASSUME LinkInv, FlowInv, NEW p \in Procs
    PROVE  /\ \A t \in Tokens, o \in Accounts : Callback(p, t, o) => FlowInv'
           /\ \A d \in Discords : Unlink(p, d) \/ Pick(p, d) => FlowInv'
<1>1. ASSUME NEW t \in Tokens, NEW o \in Accounts, Callback(p, t, o)
      PROVE  FlowInv'
  BY <1>1, CallbackBegins, BroughtStays
     DEF Callback, Begins, history, Authorised, InTransaction, Writing, FlowInv, PairsComeFromFlows
<1>2. ASSUME NEW d \in Discords, Unlink(p, d)
      PROVE  FlowInv'
  BY <1>2, UnlinkBegins, BroughtStays
     DEF Unlink, Begins, Authorised, InTransaction, Writing, LinkInv, TypeOK
<1>3. ASSUME NEW d \in Discords, Pick(p, d)
      PROVE  FlowInv'
  <2>1. user' = user /\ brought' = brought /\ user[d] # None
    BY <1>3 DEF Pick, tables, history
  <2>2. <<d, user[d].osu>> \in brought
    BY <2>1 DEF FlowInv, PairsComeFromFlows
  <2>3. QED
    BY <1>3, <2>1, <2>2, PickBegins, BroughtStays DEF Begins
<1>4. QED
  BY <1>1, <1>2, <1>3

LEMMA RunBrought ==
    ASSUME LinkInv, FlowInv, NEW p \in Procs, Run(p)
    PROVE  FlowInv'
<1> USE DEF tables, history
<1>1. CASE FetchProfile(p)
  BY <1>1, FetchProfileGoesOn, GoesOnBrought, LetsGoBrought DEF FetchProfile, Authorised
<1>2. CASE Cut(p)
  BY <1>2, CutGoesOn, GoesOnBrought DEF Cut, Authorised
<1>3. CASE Upsert(p)
  BY <1>3, UpsertGoesOn, GoesOnBrought, LetsGoBrought DEF Upsert, Authorised, InTransaction
<1>4. CASE AppToken(p)
  BY <1>4, AppTokenGoesOn, GoesOnBrought, LetsGoBrought
     DEF AppToken, Authorised, InTransaction, Writing
<1>5. ASSUME NEW m \in Modes, FetchMode(p, m)
      PROVE  FlowInv'
  BY <1>5, FetchModeGoesOn, GoesOnBrought DEF FetchMode, Authorised, InTransaction, Writing
<1>6. CASE DeadlockVictim(p)
  BY <1>6, DeadlockVictimTyped, LetsGoBrought DEF DeadlockVictim
<1>7. CASE Enqueue(p)
  BY <1>7, EnqueueLetsGo, LetsGoBrought DEF Enqueue
<1>8. CASE Reschedule(p)
  BY <1>8, RescheduleTyped, LetsGoBrought DEF Reschedule
<1>9. QED
  BY <1>1, <1>2, <1>3, <1>4, <1>5, <1>6, <1>7, <1>8, ExchangeBrought, CommitBrought DEF Run

LEMMA StepBrought == LinkInv /\ FlowInv /\ [Next]_vars => FlowInv'
<1> SUFFICES ASSUME LinkInv, FlowInv, [Next]_vars PROVE FlowInv'
  OBVIOUS
<1>1. ASSUME UNCHANGED <<proc, brought>>, user' = user \/ SameFacts
      PROVE  FlowInv'
  BY <1>1 DEF FlowInv, PairsComeFromFlows, SameFacts
<1>2. CASE UNCHANGED vars
  BY <1>1, <1>2 DEF vars, tables, history
<1>3. ASSUME NEW p \in Procs, Crash(p)
      PROVE  FlowInv'
  BY <1>3, CrashTyped, LetsGoBrought DEF Crash, tables, history
<1>4. ASSUME NEW d \in Discords, \/ \E t \in Tokens : StartFlow(d, t)
                                 \/ FallDue(d) \/ PlayerSync(d)
      PROVE  FlowInv'
  BY <1>1, <1>4, FallDueTyped DEF StartFlow, FallDue, PlayerSync, history
<1>5. ASSUME \/ \E t \in Tokens : Expire(t)
             \/ \E o \in Accounts : Drift(o)
      PROVE  FlowInv'
  BY <1>1, <1>5 DEF Expire, Drift, tables, history
<1>6. QED
  BY <1>2, <1>3, <1>4, <1>5, RunBrought, BeginBrought DEF Next

LEMMA InitBrought == Init => FlowInv
<1> SUFFICES ASSUME Init PROVE FlowInv
  OBVIOUS
<1>1. PairsComeFromFlows
  BY InitOwned DEF PairsComeFromFlows, Owned
<1>2. QED
  BY <1>1 DEF Init, FlowInv, Idle, Authorised, InTransaction, Writing

\* An identity is paired only with accounts whose codes came back with states of
\* its own, whatever flows, refreshes and unlinks overlap.
THEOREM NoPairIsMadeUp == Spec => []PairsComeFromFlows
<1>1. Spec => []FlowInv
  BY LinkInvariant, InitBrought, StepBrought, PTL DEF Spec
<1>2. QED
  BY <1>1, PTL DEF FlowInv

-----------------------------------------------------------------------------
(* Row locks make an account the property of one identity                  *)

Has(d, o) == user[d] # None /\ user[d].osu = o

LocksOf(r) == r.cut \cup (IF r.wrote THEN {r.discord} ELSE {})

\* The rows that a transaction has deleted are owners of its account; once it
\* has written its own row, it has locked every owner, and the account that
\* its row is leaving has no statistics.
Holds(r) ==
    /\ r.cut \subseteq Owners(r.osu) \ {r.discord}
    /\ r.wrote =>
          /\ Owners(r.osu) \subseteq r.cut \cup {r.discord}
          /\ \/ user[r.discord] = None
             \/ user[r.discord].osu = r.osu
             \/ \A m \in Modes : stats[user[r.discord].osu][m] = None

\* Two transactions share no row and no value of the unique key.
Apart(r, s) ==
    /\ LocksOf(r) \cap LocksOf(s) = {}
    /\ r.wrote /\ s.wrote => r.osu # s.osu

OneHolder   == \A d, e \in Discords, o \in Accounts : Has(d, o) /\ Has(e, o) => d = e
StatsOwned  == \A o \in Accounts, m \in Modes :
                  stats[o][m] # None => \E d \in Discords : Has(d, o)
LocksSound  == /\ \A p \in Procs : Holds(proc[p])
               /\ \A p, q \in Procs : p # q => Apart(proc[p], proc[q])

ExclusiveInv == OneHolder /\ StatsOwned /\ LocksSound

\* A process that takes no lock, where no row changes hands.
LEMMA LocksStay ==
    ASSUME ExclusiveInv, NEW p \in Procs, Alone(p), SameFacts, stats' = stats,
           \/ proc'[p].cut = {} /\ proc'[p].wrote = FALSE
           \/ KeepsRows(p) /\ proc'[p].osu = proc[p].osu /\ proc'[p].discord = proc[p].discord,
           \A q \in Procs : proc[q].wrote => proc[q].discord \in Discords
    PROVE  ExclusiveInv'
<1>1. \A d \in Discords, o \in Accounts : Has(d, o)' <=> Has(d, o)
  BY DEF SameFacts, Has
<1>2. \A o : Owners(o)' = Owners(o)
  BY DEF SameFacts, Owners
<1>3. ASSUME NEW q \in Procs
      PROVE  Holds(proc[q])'
  <2>1. CASE proc'[q].cut = {} /\ proc'[q].wrote = FALSE
    BY <2>1 DEF Holds
  <2>2. CASE /\ proc'[q].cut = proc[q].cut /\ proc'[q].wrote = proc[q].wrote
             /\ proc'[q].osu = proc[q].osu /\ proc'[q].discord = proc[q].discord
    BY <1>2, <2>2 DEF Holds, ExclusiveInv, LocksSound, SameFacts
  <2>3. QED
    BY <2>1, <2>2 DEF Alone, KeepsRows
<1>4. ASSUME NEW q \in Procs, NEW r \in Procs, q # r
      PROVE  Apart(proc[q], proc[r])'
  <2>1. \A u \in Procs : \/ proc'[u].cut = {} /\ proc'[u].wrote = FALSE
                         \/ /\ proc'[u].cut = proc[u].cut /\ proc'[u].wrote = proc[u].wrote
                            /\ proc'[u].osu = proc[u].osu /\ proc'[u].discord = proc[u].discord
    BY DEF Alone, KeepsRows
  <2>2. Apart(proc[q], proc[r])
    BY <1>4 DEF ExclusiveInv, LocksSound
  <2>3. QED
    BY <2>1, <2>2 DEF Apart, LocksOf
<1>5. QED
  BY <1>1, <1>3, <1>4 DEF ExclusiveInv, OneHolder, StatsOwned, LocksSound

LEMMA WritersKnown ==
    ASSUME LinkInv, NEW q \in Procs, proc[q].wrote
    PROVE  proc[q].discord \in Discords /\ proc[q].osu \in Accounts
BY DEF LinkInv, TokensSound, Shape, Authorised, InTransaction, Writing

LEMMA SameUserFacts ==
    ASSUME LinkInv, user' = user
    PROVE  SameFacts
BY DEF SameFacts, LinkInv, TypeOK

LEMMA QuietStep ==
    ASSUME LinkInv, ExclusiveInv, NEW p \in Procs, Alone(p), stats' = stats,
           user' = user \/ SameFacts,
           \/ proc'[p].cut = {} /\ proc'[p].wrote = FALSE
           \/ KeepsRows(p) /\ proc'[p].osu = proc[p].osu /\ proc'[p].discord = proc[p].discord
    PROVE  ExclusiveInv'
BY LocksStay, WritersKnown, SameUserFacts

\* The first statement waits until nobody else has a lock on what it deletes.
LEMMA CutExclusive ==
    ASSUME LinkInv, ExclusiveInv, NEW p \in Procs, Cut(p)
    PROVE  ExclusiveInv'
<1> DEFINE o == proc[p].osu
           d == proc[p].discord
<1>1. user' = user /\ stats' = stats
  BY DEF Cut, tables
<1>2. proc[p].wrote = FALSE
  BY ProcFields DEF Cut, LinkInv, TypeOK, TokensSound, Shape, Writing
<1>3. /\ Alone(p) /\ proc'[p].cut = Owners(o) \ {d} /\ proc'[p].wrote = FALSE
      /\ proc'[p].osu = o /\ proc'[p].discord = d
  BY <1>2, CutGoesOn DEF GoesOn
<1>4. \A q \in Procs : q # p => LocksOf(proc[q]) \cap (Owners(o) \ {d}) = {}
  BY DEF Cut, Waits, WaitsFor, Locks, LocksOf
<1>5. \A x : Owners(x)' = Owners(x)
  BY <1>1 DEF Owners
<1>6. \A q \in Procs : Holds(proc[q])'
  <2>1. Holds(proc[p])'
    BY <1>3, <1>5 DEF Holds
  <2>2. ASSUME NEW q \in Procs, q # p
        PROVE  Holds(proc[q])'
    BY <2>2, <1>1, <1>3, <1>5 DEF Alone, Holds, ExclusiveInv, LocksSound
  <2>3. QED
    BY <2>1, <2>2
<1>7. ASSUME NEW q \in Procs, q # p
      PROVE  Apart(proc[q], proc[p])' /\ Apart(proc[p], proc[q])'
  BY <1>3, <1>4, <1>7 DEF Alone, Apart, LocksOf
<1>8. ASSUME NEW q \in Procs, NEW r \in Procs, q # p, r # p, q # r
      PROVE  Apart(proc[q], proc[r])'
  BY <1>3, <1>8 DEF Alone, Apart, LocksOf, ExclusiveInv, LocksSound
<1>9. QED
  BY <1>1, <1>6, <1>7, <1>8 DEF ExclusiveInv, OneHolder, StatsOwned, LocksSound, Has

\* The second one waits for its own row and for the fate of its account, and
\* is refused if an owner is left that it has not deleted.
LEMMA UpsertExclusive ==
    ASSUME LinkInv, ExclusiveInv, NEW p \in Procs, Upsert(p)
    PROVE  ExclusiveInv'
<1> DEFINE o == proc[p].osu
           d == proc[p].discord
<1>1. user' = user /\ stats' = stats
  BY DEF Upsert, tables
<1>2. CASE LetsGo(p)
  BY <1>1, <1>2, QuietStep DEF LetsGo
<1>3. ASSUME NEW at \in Writing, ~Clashes(p), GoesOn(p, at),
             proc'[p].cut = proc[p].cut, proc'[p].wrote = TRUE
      PROVE  ExclusiveInv'
  <2>1. /\ Alone(p) /\ proc'[p].cut = proc[p].cut /\ proc'[p].wrote = TRUE
        /\ proc'[p].osu = o /\ proc'[p].discord = d
    BY <1>3 DEF GoesOn
  <2>2. proc[p].wrote = FALSE
    BY ProcFields DEF Upsert, LinkInv, TypeOK, TokensSound, Shape, Writing
  <2>3. \A q \in Procs : q # p => d \notin LocksOf(proc[q]) /\ (proc[q].wrote => proc[q].osu # o)
    BY DEF Upsert, Waits, WaitsFor, Locks, LocksOf, Keys
  <2>4. \A x : Owners(x)' = Owners(x)
    BY <1>1 DEF Owners
  <2>5. Holds(proc[p])'
    <3>1. /\ Owners(o) \subseteq proc[p].cut \cup {d}
          /\ user[d] = None \/ user[d].osu = o \/ \A m \in Modes : stats[user[d].osu][m] = None
      BY <1>3 DEF Clashes
    <3>2. proc[p].cut \subseteq Owners(o) \ {d}
      BY DEF ExclusiveInv, LocksSound, Holds
    <3>3. QED
      BY <1>1, <2>1, <2>4, <3>1, <3>2 DEF Holds
  <2>6. ASSUME NEW q \in Procs, q # p
        PROVE  Holds(proc[q])'
    BY <1>1, <2>1, <2>4, <2>6 DEF Alone, Holds, ExclusiveInv, LocksSound
  <2>7. ASSUME NEW q \in Procs, q # p
        PROVE  Apart(proc[q], proc[p])' /\ Apart(proc[p], proc[q])'
    <3>1. LocksOf(proc[p]) \cap LocksOf(proc[q]) = {}
      BY <2>7 DEF ExclusiveInv, LocksSound, Apart
    <3>2. proc[p].cut \cap LocksOf(proc[q]) = {}
      BY <3>1 DEF LocksOf
    <3>3. QED
      BY <2>1, <2>3, <2>7, <3>2 DEF Alone, Apart, LocksOf
  <2>8. ASSUME NEW q \in Procs, NEW r \in Procs, q # p, r # p, q # r
        PROVE  Apart(proc[q], proc[r])'
    BY <2>1, <2>8 DEF Alone, Apart, LocksOf, ExclusiveInv, LocksSound
  <2>9. QED
    BY <1>1, <2>5, <2>6, <2>7, <2>8 DEF ExclusiveInv, OneHolder, StatsOwned, LocksSound, Has
<1>4. QED
  BY <1>2, <1>3, UpsertGoesOn

\* What the locks say of a transaction that commits.
LEMMA CommitOwners ==
    ASSUME LinkInv, ExclusiveInv, NEW p \in Procs, Commit(p)
    PROVE  /\ proc[p].discord \in Discords /\ proc[p].osu \in Accounts
           /\ proc[p].cut \subseteq Owners(proc[p].osu) \ {proc[p].discord}
           /\ Owners(proc[p].osu) \subseteq LocksOf(proc[p])
           /\ LocksOf(proc[p]) = proc[p].cut \cup {proc[p].discord}
           /\ \/ user[proc[p].discord] = None
              \/ user[proc[p].discord].osu = proc[p].osu
              \/ \A m \in Modes : stats[user[proc[p].discord].osu][m] = None
           /\ \A q \in Procs : q # p => /\ LocksOf(proc[q]) \cap LocksOf(proc[p]) = {}
                                        /\ proc[q].wrote => proc[q].osu # proc[p].osu
<1>1. proc[p].wrote
  BY DEF Commit, LinkInv, TokensSound, Shape, Writing
<1>2. Holds(proc[p]) /\ \A q \in Procs : q # p => Apart(proc[q], proc[p])
  BY DEF ExclusiveInv, LocksSound
<1>3. QED
  BY <1>1, <1>2, WritersKnown DEF Holds, Apart, LocksOf

\* Who has what after a commit.
LEMMA CommitHas ==
    ASSUME LinkInv, ExclusiveInv, NEW p \in Procs, Commit(p), NEW e \in Discords, NEW x \in Accounts
    PROVE  Has(e, x)' <=> \/ e = proc[p].discord /\ x = proc[p].osu
                          \/ e \notin LocksOf(proc[p]) /\ Has(e, x)
<1> DEFINE r == [osu |-> proc[p].osu, profile |-> proc[p].seen, due |-> FALSE]
<1>1. user' = [f \in Discords |-> IF f = proc[p].discord THEN r
                                  ELSE IF f \in proc[p].cut THEN None ELSE user[f]]
  BY DEF Commit
<1>2. r \in User /\ r.osu = proc[p].osu
  <2>1. proc[p].seen \in Fact
    BY ProcFields DEF LinkInv, TypeOK
  <2>2. QED
    BY <2>1, CommitOwners DEF User
<1>3. r # None
  BY <1>2, NoneAssumption
<1>4. QED
  <2> HIDE DEF r
  <2>1. QED
    BY <1>1, <1>2, <1>3, CommitOwners DEF Has

\* The locks of the others outlast a commit.
LEMMA CommitHolds ==
    ASSUME LinkInv, ExclusiveInv, NEW p \in Procs, Commit(p), NEW q \in Procs, q # p
    PROVE  Holds(proc[q])'
<1> DEFINE c == proc[q]
           o == proc[p].osu
           d == proc[p].discord
<1>1. proc'[q] = c /\ Holds(c) /\ (c.wrote => c.discord \in Discords /\ c.osu \in Accounts)
  BY CommitGoesOn, WritersKnown DEF GoesOn, Alone, ExclusiveInv, LocksSound
<1>2. /\ LocksOf(c) \cap LocksOf(proc[p]) = {}
      /\ LocksOf(proc[p]) = proc[p].cut \cup {d}
      /\ d \in LocksOf(proc[p])
      /\ c.wrote => c.osu # o
  BY CommitOwners
<1>3. \A e \in Discords : e \notin LocksOf(proc[p]) => user'[e] = user[e]
  BY <1>2 DEF Commit
<1>4. c.cut \subseteq LocksOf(c) /\ (c.wrote => c.discord \in LocksOf(c))
  BY DEF LocksOf
<1>5. c.cut \subseteq Owners(c.osu)' \ {c.discord}
  <2>1. \A e \in c.cut : e \in Discords /\ e \notin LocksOf(proc[p]) /\ user'[e] = user[e]
    BY <1>1, <1>2, <1>3, <1>4 DEF Holds, Owners
  <2>2. QED
    BY <1>1, <2>1 DEF Holds, Owners
<1>6. c.wrote => Owners(c.osu)' \subseteq c.cut \cup {c.discord}
  <2>1. SUFFICES ASSUME c.wrote, NEW e \in Owners(c.osu)'
                 PROVE  e \in c.cut \cup {c.discord}
    OBVIOUS
  <2>2. e \in Discords /\ Has(e, c.osu)'
    BY <2>1 DEF Owners, Has
  <2>3. Has(e, c.osu)
    BY <1>1, <1>2, <2>1, <2>2, CommitHas
  <2>4. QED
    BY <1>1, <2>1, <2>2, <2>3 DEF Has, Owners, Holds
<1>7. ASSUME c.wrote
      PROVE  \/ user'[c.discord] = None
             \/ user'[c.discord].osu = c.osu
             \/ \A m \in Modes : stats'[user'[c.discord].osu][m] = None
  <2>1. user'[c.discord] = user[c.discord] /\ c.discord \notin LocksOf(proc[p])
    BY <1>1, <1>2, <1>3, <1>4, <1>7
  <2>2. CASE user[c.discord] = None \/ user[c.discord].osu = c.osu
    BY <2>1, <2>2
  <2>3. CASE user[c.discord] # None /\ \A m \in Modes : stats[user[c.discord].osu][m] = None
    <3>1. user[c.discord].osu # o
      BY <1>1, <1>7, <2>1, <2>3, CommitOwners DEF Owners
    <3>2. stats'[user[c.discord].osu] = stats[user[c.discord].osu]
      BY <3>1, <2>3, <1>1, <1>7 DEF Commit, LinkInv, TypeOK, User
    <3>3. QED
      BY <2>1, <2>3, <3>2
  <2>4. QED
    BY <1>1, <1>7, <2>2, <2>3 DEF Holds
<1>8. QED
  BY <1>1, <1>5, <1>6, <1>7 DEF Holds

LEMMA CommitExclusive ==
    ASSUME LinkInv, ExclusiveInv, NEW p \in Procs, Commit(p)
    PROVE  ExclusiveInv'
<1> DEFINE o == proc[p].osu
           d == proc[p].discord
<1>1. OneHolder'
  <2>1. SUFFICES ASSUME NEW e \in Discords, NEW f \in Discords, NEW x \in Accounts,
                        Has(e, x)', Has(f, x)'
                 PROVE  e = f
    BY DEF OneHolder
  <2>2. \A g \in Discords : g \notin LocksOf(proc[p]) => ~Has(g, o)
    BY CommitOwners DEF Owners, Has
  <2>3. Has(e, x) /\ Has(f, x) => e = f
    BY DEF ExclusiveInv, OneHolder
  <2>4. QED
    BY <2>1, <2>2, <2>3, CommitHas
<1>2. StatsOwned'
  <2>1. SUFFICES ASSUME NEW x \in Accounts, NEW m \in Modes, stats'[x][m] # None
                 PROVE  \E e \in Discords : Has(e, x)'
    BY DEF StatsOwned
  <2>2. CASE x = o
    BY <2>2, CommitHas, CommitOwners
  <2>3. CASE x # o
    <3>1. stats[x][m] # None
      BY <2>1, <2>3 DEF Commit, LinkInv, TypeOK
    <3>2. PICK e \in Discords : Has(e, x)
      BY <3>1 DEF ExclusiveInv, StatsOwned
    <3>3. e # d
      BY <2>3, <3>1, <3>2, CommitOwners DEF Has
    <3>4. e \notin proc[p].cut
      BY <2>3, <3>2, CommitOwners DEF Has, Owners
    <3>5. QED
      BY <3>2, <3>3, <3>4, CommitHas, CommitOwners
  <2>4. QED
    BY <2>2, <2>3
<1>3. Holds(proc[p])' /\ \A q \in Procs : q # p => Apart(proc[p], proc[q])' /\ Apart(proc[q], proc[p])'
  BY CommitGoesOn DEF Holds, Apart, LocksOf
<1>4. ASSUME NEW q \in Procs, NEW r \in Procs, q # p, r # p, q # r
      PROVE  Apart(proc[q], proc[r])'
  <2>1. proc'[q] = proc[q] /\ proc'[r] = proc[r]
    BY <1>4, CommitGoesOn DEF GoesOn, Alone
  <2>2. Apart(proc[q], proc[r])
    BY <1>4 DEF ExclusiveInv, LocksSound
  <2>3. QED
    BY <2>1, <2>2 DEF Apart, LocksOf
<1>5. QED
  BY <1>1, <1>2, <1>3, <1>4, CommitHolds DEF ExclusiveInv, LocksSound

\* An unlink waits for the lock of its row.
LEMMA UnlinkExclusive ==
    ASSUME LinkInv, ExclusiveInv, NEW p \in Procs, NEW d \in Discords, Unlink(p, d)
    PROVE  ExclusiveInv'
<1> DEFINE o == user[d].osu
<1>1. /\ user' = [user EXCEPT ![d] = None]
      /\ stats' = [stats EXCEPT ![o] = [m \in Modes |-> None]]
      /\ user[d] # None /\ o \in Accounts
  BY DEF Unlink, LinkInv, TypeOK, User
<1>2. \A e \in Discords, x \in Accounts : Has(e, x)' <=> e # d /\ Has(e, x)
  BY <1>1 DEF Has, LinkInv, TypeOK
<1>3. OneHolder'
  BY <1>2 DEF OneHolder, ExclusiveInv
<1>4. StatsOwned'
  <2>1. SUFFICES ASSUME NEW x \in Accounts, NEW m \in Modes, stats'[x][m] # None
                 PROVE  \E e \in Discords : Has(e, x)'
    BY DEF StatsOwned
  <2>2. x # o /\ stats[x][m] # None
    BY <1>1, <2>1 DEF LinkInv, TypeOK
  <2>3. PICK e \in Discords : Has(e, x)
    BY <2>2 DEF ExclusiveInv, StatsOwned
  <2>4. QED
    BY <1>2, <2>2, <2>3 DEF Has
<1>5. \A q \in Procs : d \notin LocksOf(proc[q])
  BY DEF Unlink, Locked, Locks, LocksOf
<1>6. /\ Alone(p) /\ proc'[p].cut = {} /\ proc'[p].wrote = FALSE
  BY UnlinkBegins DEF Begins
<1>7. Holds(proc[p])' /\ \A q \in Procs : q # p => Apart(proc[p], proc[q])' /\ Apart(proc[q], proc[p])'
  BY <1>6 DEF Holds, Apart, LocksOf
<1>8. ASSUME NEW q \in Procs, q # p
      PROVE  Holds(proc[q])'
  <2> DEFINE c == proc[q]
  <2>1. proc'[q] = c /\ Holds(c) /\ (c.wrote => c.discord \in Discords /\ c.osu \in Accounts)
    BY <1>6, <1>8, WritersKnown DEF Alone, ExclusiveInv, LocksSound
  <2>2. d \notin c.cut /\ (c.wrote => c.discord # d)
    BY <1>5 DEF LocksOf
  <2>3. Owners(c.osu)' = Owners(c.osu) \ {d}
    <3>1. \A e \in Discords : user'[e] = IF e = d THEN None ELSE user[e]
      BY <1>1 DEF LinkInv, TypeOK
    <3>2. QED
      BY <2>1, <3>1 DEF Owners
  <2>4. ASSUME c.wrote
        PROVE  user'[c.discord] = user[c.discord]
               /\ \A x \in Accounts, m \in Modes : stats[x][m] = None => stats'[x][m] = None
    BY <1>1, <2>1, <2>2, <2>4 DEF LinkInv, TypeOK
  <2>5. c.wrote /\ user[c.discord] # None => user[c.discord].osu \in Accounts
    BY <2>1 DEF LinkInv, TypeOK, User
  <2>6. QED
    BY <2>1, <2>2, <2>3, <2>4, <2>5 DEF Holds
<1>9. ASSUME NEW q \in Procs, NEW r \in Procs, q # p, r # p, q # r
      PROVE  Apart(proc[q], proc[r])'
  BY <1>6, <1>9 DEF Alone, Apart, LocksOf, ExclusiveInv, LocksSound
<1>10. QED
  BY <1>3, <1>4, <1>7, <1>8, <1>9 DEF ExclusiveInv, LocksSound

LEMMA StepExclusive == LinkInv /\ ExclusiveInv /\ [Next]_vars => ExclusiveInv'
<1> SUFFICES ASSUME LinkInv, ExclusiveInv, [Next]_vars PROVE ExclusiveInv'
  OBVIOUS
<1> USE DEF tables, history
<1>1. ASSUME proc' = proc, stats' = stats, user' = user \/ SameFacts
      PROVE  ExclusiveInv'
  <2>1. SameFacts
    BY <1>1, SameUserFacts
  <2>2. (\A d \in Discords, o \in Accounts : Has(d, o)' <=> Has(d, o)) /\ \A o : Owners(o)' = Owners(o)
    BY <2>1 DEF SameFacts, Has, Owners
  <2>3. \A q \in Procs : Holds(proc[q])'
    BY <1>1, <2>1, <2>2, WritersKnown DEF Holds, ExclusiveInv, LocksSound, SameFacts
  <2>4. QED
    BY <1>1, <2>2, <2>3 DEF ExclusiveInv, OneHolder, StatsOwned, LocksSound, Apart, LocksOf
<1>2. CASE UNCHANGED vars
  BY <1>1, <1>2 DEF vars
<1>3. ASSUME NEW p \in Procs, Run(p)
      PROVE  ExclusiveInv'
  <2>1. CASE Exchange(p)
    BY <2>1, ExchangeGoesOn, QuietStep DEF Exchange, GoesOn, LetsGo
  <2>2. CASE FetchProfile(p)
    BY <2>2, FetchProfileGoesOn, QuietStep DEF FetchProfile, GoesOn, LetsGo
  <2>3. CASE AppToken(p)
    BY <2>3, AppTokenGoesOn, QuietStep DEF AppToken, GoesOn, LetsGo
  <2>4. ASSUME NEW m \in Modes, FetchMode(p, m)
        PROVE  ExclusiveInv'
    BY <2>4, FetchModeGoesOn, QuietStep DEF FetchMode, GoesOn
  <2>5. CASE DeadlockVictim(p)
    BY <2>5, DeadlockVictimTyped, QuietStep DEF DeadlockVictim, LetsGo
  <2>6. CASE Enqueue(p)
    BY <2>6, EnqueueLetsGo, QuietStep DEF Enqueue, LetsGo
  <2>7. CASE Reschedule(p)
    BY <2>7, RescheduleTyped, QuietStep DEF Reschedule, LetsGo
  <2>8. QED
    BY <1>3, <2>1, <2>2, <2>3, <2>4, <2>5, <2>6, <2>7,
       CutExclusive, UpsertExclusive, CommitExclusive DEF Run
<1>4. ASSUME NEW p \in Procs, Crash(p)
      PROVE  ExclusiveInv'
  BY <1>4, CrashTyped, QuietStep DEF Crash, LetsGo
<1>5. ASSUME NEW p \in Procs, NEW t \in Tokens, NEW o \in Accounts, Callback(p, t, o)
      PROVE  ExclusiveInv'
  BY <1>5, CallbackBegins, QuietStep DEF Callback, Begins
<1>6. ASSUME NEW p \in Procs, NEW d \in Discords, Pick(p, d)
      PROVE  ExclusiveInv'
  BY <1>6, PickBegins, QuietStep DEF Pick, Begins
<1>7. ASSUME NEW d \in Discords, \/ \E t \in Tokens : StartFlow(d, t)
                                 \/ FallDue(d) \/ PlayerSync(d)
      PROVE  ExclusiveInv'
  BY <1>1, <1>7, FallDueTyped DEF StartFlow, FallDue, PlayerSync
<1>8. ASSUME \/ \E t \in Tokens : Expire(t)
             \/ \E o \in Accounts : Drift(o)
      PROVE  ExclusiveInv'
  BY <1>1, <1>8 DEF Expire, Drift
<1>9. QED
  BY <1>2, <1>3, <1>4, <1>5, <1>6, <1>7, <1>8, UnlinkExclusive DEF Next

LEMMA InitExclusive == Init => ExclusiveInv
<1> SUFFICES ASSUME Init PROVE ExclusiveInv
  OBVIOUS
<1>1. PICK f \in Owned :
         /\ user = [d \in Discords |-> IF f[d] = None THEN None
                      ELSE [osu |-> f[d], profile |-> 0, due |-> FALSE]]
         /\ stats = [o \in Accounts |-> [m \in Modes |->
                      IF \E d \in Earlier : f[d] = o THEN 0 ELSE None]]
  BY InitOwned
<1>2. \A d \in Discords, o \in Accounts : Has(d, o) <=> d \in Earlier /\ f[d] = o
  <2>1. \A d \in Discords : f[d] # None => [osu |-> f[d], profile |-> 0, due |-> FALSE] \in User
    BY IdleType DEF Owned, User
  <2>2. \A d \in Discords : f[d] # None <=> d \in Earlier
    BY DEF Owned
  <2>3. QED
    BY <1>1, <2>1, <2>2, NoneAssumption DEF Has
<1>3. OneHolder
  BY <1>2 DEF Owned, OneHolder
<1>4. StatsOwned
  BY <1>1, <1>2, EarlierAssumption DEF StatsOwned
<1>5. LocksSound
  BY DEF Init, Idle, LocksSound, Holds, Apart, LocksOf
<1>6. QED
  BY <1>3, <1>4, <1>5 DEF ExclusiveInv

LEMMA ExclusiveAlways == Spec => []ExclusiveInv
BY LinkInvariant, InitExclusive, StepExclusive, PTL DEF Spec

\* An osu! account is tied to one Discord identity at a time, and what nobody
\* has leaves no statistics behind, although neither statement of
\* upsert_user_profile sees what the other transactions have not committed.
THEOREM AccountHasOneOwner == Spec => []OneOwner
<1>1. LinkInv /\ ExclusiveInv => OneOwner
  <2> SUFFICES ASSUME ExclusiveInv, NEW o \in Accounts
               PROVE  /\ Cardinality(Owners(o)) <= 1
                      /\ Owners(o) = {} => \A m \in Modes : stats[o][m] = None
    BY DEF OneOwner
  <2>1. Owners(o) = {} \/ \E d \in Discords : Owners(o) = {d}
    BY DEF ExclusiveInv, OneHolder, Has, Owners
  <2>2. Cardinality(Owners(o)) <= 1
    BY <2>1, FS_EmptySet, FS_Singleton
  <2>3. Owners(o) = {} => \A m \in Modes : stats[o][m] = None
    BY DEF ExclusiveInv, StatsOwned, Has, Owners
  <2>4. QED
    BY <2>2, <2>3
<1>2. QED
  BY <1>1, LinkInvariant, ExclusiveAlways, PTL

-----------------------------------------------------------------------------
(* A sync follows what is committed                                        *)

Announced(d) == d \in queue \/ \E p \in Procs : proc[p].at = "enqueue" /\ proc[p].discord = d

LEMMA SameFactsSameView ==
    ASSUME SameFacts, stats' = stats, NEW d \in Discords
    PROVE  View(d)' = View(d)
BY DEF SameFacts, View

\* An unlink or a commit changes the statistics of one account, which are
\* in nobody's view but its owner's.
LEMMA OthersView ==
    ASSUME NEW d \in Discords, user'[d] = user[d], NEW o \in Accounts, NEW new,
           stats' = [stats EXCEPT ![o] = new], ~Has(d, o), LinkInv
    PROVE  View(d)' = View(d)
BY DEF View, Has, LinkInv, TypeOK, User

LEMMA FaultCounts ==
    ASSUME LinkInv, Fault
    PROVE  faults' # 0
BY DEF Fault, LinkInv, TypeOK

LEMMA QuietFollows ==
    ASSUME LinkInv, SyncFollows, NEW p \in Procs, Alone(p), proc[p].at # "enqueue",
           UNCHANGED <<queue, synced, cutoff, stats>>, user' = user \/ SameFacts,
           Fault \/ UNCHANGED faults
    PROVE  SyncFollows'
<1>1. SUFFICES ASSUME faults = 0, faults' = 0, NEW d \in Discords, d \notin cutoff,
                      synced[d] = View(d) \/ Announced(d)
               PROVE  synced[d] = View(d)' \/ Announced(d)'
  BY FaultCounts DEF SyncFollows, Announced
<1>2. View(d)' = View(d)
  BY SameUserFacts, SameFactsSameView
<1>3. Announced(d) => Announced(d)'
  BY DEF Announced, Alone
<1>4. QED
  BY <1>1, <1>2, <1>3

\* The callback or the refresh enqueues a sync of the identity it wrote.  An
\* identity that it severed is cut off.
LEMMA CommitFollows ==
    ASSUME LinkInv, ExclusiveInv, SyncFollows, NEW p \in Procs, Commit(p)
    PROVE  SyncFollows'
<1>1. /\ Alone(p) /\ proc[p].at = "modes" /\ proc'[p].at = "enqueue"
      /\ proc'[p].discord = proc[p].discord
  BY CommitGoesOn DEF Commit, GoesOn
<1>2. SUFFICES ASSUME faults = 0, NEW d \in Discords, d \notin cutoff', d # proc[p].discord
               PROVE  synced[d] = View(d)' \/ Announced(d)'
  BY <1>1 DEF Commit, SyncFollows, Announced
<1>3. d \notin cutoff /\ d \notin proc[p].cut
  BY <1>2 DEF Commit
<1>4. user'[d] = user[d] /\ ~Has(d, proc[p].osu)
  BY <1>2, <1>3, CommitOwners DEF Commit, Owners, Has
<1>5. View(d)' = View(d)
  BY <1>4, CommitOwners, OthersView DEF Commit
<1>6. Announced(d) => Announced(d)'
  BY <1>1 DEF Announced, Alone, Commit
<1>7. synced[d] = View(d) \/ Announced(d)
  BY <1>2, <1>3 DEF SyncFollows, Announced
<1>8. QED
  BY <1>5, <1>6, <1>7

LEMMA UnlinkFollows ==
    ASSUME LinkInv, ExclusiveInv, SyncFollows, NEW p \in Procs, NEW e \in Discords, Unlink(p, e)
    PROVE  SyncFollows'
<1>1. Alone(p) /\ proc[p].at = "idle" /\ proc'[p].at = "enqueue" /\ proc'[p].discord = e
  BY UnlinkBegins DEF Begins
<1>2. SUFFICES ASSUME faults = 0, NEW d \in Discords, d \notin cutoff', d # e
               PROVE  synced[d] = View(d)' \/ Announced(d)'
  BY <1>1 DEF Unlink, SyncFollows, Announced
<1>3. user[e].osu \in Accounts /\ Has(e, user[e].osu)
  BY DEF Unlink, Has, LinkInv, TypeOK, User
<1>4. user'[d] = user[d] /\ ~Has(d, user[e].osu)
  BY <1>2, <1>3 DEF Unlink, ExclusiveInv, OneHolder, LinkInv, TypeOK
<1>5. View(d)' = View(d)
  BY <1>3, <1>4, OthersView DEF Unlink
<1>6. Announced(d) => Announced(d)'
  BY <1>1 DEF Announced, Alone, Unlink
<1>7. synced[d] = View(d) \/ Announced(d)
  BY <1>2 DEF SyncFollows, Announced, Unlink
<1>8. QED
  BY <1>5, <1>6, <1>7

LEMMA EnqueueFollows ==
    ASSUME LinkInv, SyncFollows, NEW p \in Procs, Enqueue(p)
    PROVE  SyncFollows'
<1>1. CASE Fault
  BY <1>1, FaultCounts DEF SyncFollows
<1>2. CASE queue' = queue \cup {proc[p].discord}
  <2>1. SUFFICES ASSUME faults' = 0, NEW d \in Discords, d \notin cutoff'
                 PROVE  synced'[d] = View(d)' \/ Announced(d)'
    BY DEF SyncFollows, Announced
  <2>2. CASE Fault
    BY <2>1, <2>2, FaultCounts
  <2>3. CASE faults' = faults
    <3>1. synced[d] = View(d) \/ Announced(d)
      BY <2>1, <2>3 DEF SyncFollows, Announced, Enqueue, history
    <3>2. View(d)' = View(d) /\ synced' = synced
      BY DEF View, Enqueue, history
    <3>3. Announced(d) => Announced(d)'
      BY <1>2, EnqueueLetsGo DEF Announced, LetsGo, Alone
    <3>4. QED
      BY <3>1, <3>2, <3>3
  <2>4. QED
    BY <2>2, <2>3 DEF Enqueue
<1>3. QED
  BY <1>1, <1>2 DEF Enqueue

LEMMA PlayerSyncFollows ==
    ASSUME SyncFollows, LinkInv, NEW e \in Discords, PlayerSync(e)
    PROVE  SyncFollows'
<1>1. SUFFICES ASSUME faults = 0, NEW d \in Discords, d # e, d \notin cutoff'
               PROVE  synced'[d] = View(d)' \/ Announced(d)'
  <2>1. synced'[e] = View(e)'
    BY DEF PlayerSync, View, LinkInv, TypeOK
  <2>2. QED
    BY <1>1, <2>1 DEF SyncFollows, Announced, PlayerSync
<1>2. synced'[d] = synced[d]
  BY <1>1 DEF PlayerSync, LinkInv, TypeOK
<1>3. QED
  BY <1>1, <1>2 DEF SyncFollows, Announced, PlayerSync, View

LEMMA StepFollows == LinkInv /\ ExclusiveInv /\ SyncFollows /\ [Next]_vars => SyncFollows'
<1> SUFFICES ASSUME LinkInv, ExclusiveInv, SyncFollows, [Next]_vars PROVE SyncFollows'
  OBVIOUS
<1> USE DEF tables, history
<1>1. ASSUME UNCHANGED <<proc, queue, synced, cutoff, stats, faults>>, user' = user \/ SameFacts
      PROVE  SyncFollows'
  <2>1. \A d \in Discords : View(d)' = View(d)
    BY <1>1, SameUserFacts, SameFactsSameView
  <2>2. QED
    BY <1>1, <2>1 DEF SyncFollows
<1>2. CASE UNCHANGED vars
  BY <1>1, <1>2 DEF vars
<1>3. ASSUME NEW p \in Procs, Run(p)
      PROVE  SyncFollows'
  <2>1. CASE Exchange(p)
    BY <2>1, ExchangeGoesOn, QuietFollows DEF Exchange, GoesOn, LetsGo
  <2>2. CASE FetchProfile(p)
    BY <2>2, FetchProfileGoesOn, QuietFollows DEF FetchProfile, GoesOn, LetsGo
  <2>3. CASE Cut(p)
    BY <2>3, CutGoesOn, QuietFollows DEF Cut, GoesOn
  <2>4. CASE Upsert(p)
    BY <2>4, UpsertGoesOn, QuietFollows DEF Upsert, GoesOn, LetsGo
  <2>5. CASE AppToken(p)
    BY <2>5, AppTokenGoesOn, QuietFollows DEF AppToken, GoesOn, LetsGo
  <2>6. ASSUME NEW m \in Modes, FetchMode(p, m)
        PROVE  SyncFollows'
    BY <2>6, FetchModeGoesOn, QuietFollows DEF FetchMode, GoesOn
  <2>7. CASE DeadlockVictim(p)
    BY <2>7, DeadlockVictimTyped, QuietFollows DEF DeadlockVictim, WaitsFor, LetsGo
  <2>8. CASE Reschedule(p)
    BY <2>8, RescheduleTyped, QuietFollows DEF Reschedule, LetsGo
  <2>9. QED
    BY <1>3, <2>1, <2>2, <2>3, <2>4, <2>5, <2>6, <2>7, <2>8, CommitFollows, EnqueueFollows DEF Run
<1>4. ASSUME NEW p \in Procs, Crash(p)
      PROVE  SyncFollows'
  BY <1>4, FaultCounts DEF Crash, SyncFollows
<1>5. ASSUME NEW p \in Procs, NEW t \in Tokens, NEW o \in Accounts, Callback(p, t, o)
      PROVE  SyncFollows'
  BY <1>5, CallbackBegins, QuietFollows DEF Callback, Begins
<1>6. ASSUME NEW p \in Procs, NEW d \in Discords, Pick(p, d)
      PROVE  SyncFollows'
  BY <1>6, PickBegins, QuietFollows DEF Pick, Begins
<1>7. ASSUME NEW d \in Discords, FallDue(d) \/ \E t \in Tokens : StartFlow(d, t)
      PROVE  SyncFollows'
  BY <1>1, <1>7, FallDueTyped DEF StartFlow, FallDue
<1>8. ASSUME \/ \E t \in Tokens : Expire(t)
             \/ \E o \in Accounts : Drift(o)
      PROVE  SyncFollows'
  BY <1>1, <1>8 DEF Expire, Drift
<1>9. QED
  BY <1>2, <1>3, <1>4, <1>5, <1>6, <1>7, <1>8, UnlinkFollows, PlayerSyncFollows DEF Next

\* Whatever a link, an unlink or a refresh has committed, in whatever order,
\* no identity is left with roles that were computed from something else and
\* no sync to come, but for the one that lost its account to another.
THEOREM SyncAlwaysFollows == Spec => []SyncFollows
<1>1. Init => SyncFollows
  BY DEF Init, SyncFollows
<1>2. QED
  BY <1>1, StepFollows, LinkInvariant, ExclusiveAlways, PTL DEF Spec
=============================================================================
