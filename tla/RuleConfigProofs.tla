-------------------------- MODULE RuleConfigProofs --------------------------
(***************************************************************************)
(* Optimistic locking, for any number of tabs, rules and versions: proofs  *)
(* about RuleConfig.                                                       *)
(***************************************************************************)
EXTENDS RuleConfig, TLAPS

\* Every registration has a younger token than the last one.
Dates ==
    /\ token <= faults + 1
    /\ row # None => row.born <= row.token /\ row.token <= token

\* A tab knows of version v of the row that was born with token b: it is no
\* version that this row has not reached, nor of a row that is still to come.
Seen(b, v) ==
    /\ b <= token
    /\ live /\ row = None => b < token
    /\ row # None /\ row.token < token => b < token
    /\ row # None /\ b = row.born => v <= row.version

Current(b, v) == row # None /\ b = row.born /\ v = row.version

SeenBy(r) ==
    /\ r.at # "closed" => Seen(r.born, r.version)
    /\ r.at \in {"enqueue", "reply"} => Seen(r.answer.born, r.answer.version)
    /\ r.snap # None => Seen(r.snap.born, r.snap.version)

\* While a save is under way the row is ahead of the tab.
Ahead(r) ==
    r.at \in {"read", "enqueue", "reply"} /\ r.aside = None /\ row # None /\ r.born = row.born =>
        r.version < row.version

\* The rule that goes with the version that a tab has, waits for or was sent.
Shows(r) ==
    /\ r.at = "read" => row # None /\ row.rule = r.posted
    /\ r.at # "closed" /\ Current(r.born, r.version) => row.rule \in {r.config, r.posted}
    /\ r.at \in {"enqueue", "reply"} /\ Current(r.answer.born, r.answer.version) =>
           row.rule = r.posted
    /\ r.snap # None /\ Current(r.snap.born, r.snap.version) => row.rule = r.snap.rule

Sound(r) == SeenBy(r) /\ Ahead(r) /\ (QuickReplies => Shows(r))

RuleInv == /\ TypeOK
           /\ Dates
           /\ \A t \in Tabs : Sound(tab[t])

-----------------------------------------------------------------------------
(* What each step of a tab makes of it                                     *)

LEMMA Numbers == /\ Tokens \subseteq Nat \ {0} /\ MaxVersion \in Nat \ {0} /\ MaxFaults \in Nat
                 /\ First \in Version /\ None \notin Tree /\ Anyone \in Rules
                 /\ Unconfigured \in Tree
                 /\ \A d \in Data : d # None => d.rule \in Tree
  BY MaxVersionAssumption, MaxFaultsAssumption, AnyoneAssumption, NoneAssumption,
     UnconfiguredAssumption
     DEF Tokens, First, Version, Tree, Data

LEMMA DatesKept ==
    ASSUME RuleInv, UNCHANGED <<row, token>>, faults' \in {faults, faults + 1}
    PROVE  Dates'
  <1>1. token \in Nat /\ faults \in Nat /\ token <= faults + 1
    BY Numbers DEF RuleInv, TypeOK, Dates
  <1>2. CASE faults' = faults
    BY <1>2 DEF RuleInv, Dates
  <1>3. CASE faults' = faults + 1
    <2>1. token <= faults' + 1
      BY <1>1, <1>3
    <2> QED BY <2>1 DEF RuleInv, Dates
  <1> QED BY <1>2, <1>3

LEMMA OneTab ==
    ASSUME RuleInv, NEW t \in Tabs, UNCHANGED <<row, live, token>>,
           \A k \in Tabs \ {t} : tab'[k] = tab[k], Sound(tab[t])'
    PROVE  \A k \in Tabs : Sound(tab[k])'
  <1> SUFFICES ASSUME NEW k \in Tabs, k # t PROVE Sound(tab[k])'
    OBVIOUS
  <1>1. tab'[k] = tab[k] /\ Sound(tab[k])
    BY DEF RuleInv
  <1> QED BY <1>1 DEF Sound, SeenBy, Seen, Ahead, Shows, Current

LEMMA LoadStep ==
    ASSUME RuleInv, NEW t \in Tabs, Load(t)
    PROVE  RuleInv'
  <1> DEFINE new == [tab[t] EXCEPT !.at = "ready", !.version = row.version, !.config = row.rule,
                       !.edit = IF row.rule = Unconfigured THEN Anyone ELSE row.rule,
                       !.dirty = (row.rule = Unconfigured), !.snap = None,
                       !.posted = Unconfigured, !.born = row.born]
  <1>1. tab' = [tab EXCEPT ![t] = new] /\ row # None
    BY DEF Load, Adopt, RuleInv, TypeOK, Tab
  <1>2. row \in Row /\ tab[t] \in Tab /\ tab \in [Tabs -> Tab]
    BY <1>1 DEF RuleInv, TypeOK
  <1>3. new \in Tab
    BY <1>2, Numbers DEF Tab, Row, At, Tree
  <1>4. tab' \in [Tabs -> Tab] /\ tab'[t] = new /\ \A k \in Tabs \ {t} : tab'[k] = tab[k]
    BY <1>1, <1>2, <1>3
  <1>5. UNCHANGED <<row, live, token, queued, applied, faults>>
    BY DEF Load
  <1>6. /\ new.at = "ready" /\ new.snap = None /\ new.config = row.rule
        /\ new.version = row.version /\ new.born = row.born
    BY <1>2 DEF Tab
  <1> HIDE DEF new
  <1>7. Sound(tab[t])'
    <2>1. Seen(row.born, row.version)
      BY <1>1, <1>2, Numbers DEF RuleInv, Dates, Seen, Row, TypeOK
    <2> QED BY <2>1, <1>4, <1>5, <1>6 DEF Sound, SeenBy, Seen, Ahead, Shows, Current
  <1>8. \A k \in Tabs : Sound(tab[k])'
    BY <1>4, <1>5, <1>7, OneTab
  <1> QED BY <1>4, <1>5, <1>8 DEF RuleInv, TypeOK, Dates

LEMMA EditStep ==
    ASSUME RuleInv, NEW t \in Tabs, NEW rule \in Rules, Edit(t, rule)
    PROVE  RuleInv'
  <1> DEFINE new == [tab[t] EXCEPT !.edit = rule, !.dirty = (rule # tab[t].config)]
  <1>1. tab' = [tab EXCEPT ![t] = new]
    BY DEF Edit, RuleInv, TypeOK, Tab
  <1>2. tab[t] \in Tab /\ tab \in [Tabs -> Tab]
    BY DEF RuleInv, TypeOK
  <1>3. new \in Tab
    BY <1>2 DEF Tab, Tree
  <1>4. tab' \in [Tabs -> Tab] /\ tab'[t] = new /\ \A k \in Tabs \ {t} : tab'[k] = tab[k]
    BY <1>1, <1>2, <1>3
  <1>5. UNCHANGED <<row, live, token, queued, applied, faults>>
    BY DEF Edit
  <1>6. /\ new.at = tab[t].at /\ new.snap = tab[t].snap /\ new.config = tab[t].config
        /\ new.version = tab[t].version /\ new.born = tab[t].born /\ new.aside = tab[t].aside
        /\ new.posted = tab[t].posted /\ new.answer = tab[t].answer
    BY <1>2 DEF Tab
  <1> HIDE DEF new
  <1>7. Sound(tab[t])'
    <2>1. Sound(tab[t])
      BY DEF RuleInv
    <2> QED BY <2>1, <1>4, <1>5, <1>6 DEF Sound, SeenBy, Seen, Ahead, Shows, Current
  <1>8. \A k \in Tabs : Sound(tab[k])'
    BY <1>4, <1>5, <1>7, OneTab
  <1> QED BY <1>4, <1>5, <1>8 DEF RuleInv, TypeOK, Dates

LEMMA FetchStep ==
    ASSUME RuleInv, NEW t \in Tabs, Fetch(t)
    PROVE  RuleInv'
  <1> DEFINE data == [rule |-> row.rule, version |-> row.version, born |-> row.born]
             new  == [tab[t] EXCEPT !.snap = data]
  <1>1. tab' = [tab EXCEPT ![t] = new] /\ row # None
    BY DEF Fetch, RuleInv, TypeOK, Tab
  <1>2. row \in Row /\ tab[t] \in Tab /\ tab \in [Tabs -> Tab]
    BY <1>1 DEF RuleInv, TypeOK
  <1>3. new \in Tab
    BY <1>2 DEF Tab, Data, Row
  <1>4. tab' \in [Tabs -> Tab] /\ tab'[t] = new /\ \A k \in Tabs \ {t} : tab'[k] = tab[k]
    BY <1>1, <1>2, <1>3
  <1>5. UNCHANGED <<row, live, token, queued, applied, faults>>
    BY DEF Fetch
  <1>6. /\ new.at = tab[t].at /\ new.config = tab[t].config
        /\ new.version = tab[t].version /\ new.born = tab[t].born /\ new.aside = tab[t].aside
        /\ new.posted = tab[t].posted /\ new.answer = tab[t].answer
        /\ new.snap.rule = row.rule /\ new.snap.version = row.version /\ new.snap.born = row.born
    BY <1>2 DEF Tab
  <1> HIDE DEF new
  <1>7. Sound(tab[t])'
    <2>1. Seen(row.born, row.version)
      BY <1>1, <1>2, Numbers DEF RuleInv, Dates, Seen, Row, TypeOK
    <2>2. Sound(tab[t])
      BY DEF RuleInv
    <2> QED BY <2>1, <2>2, <1>4, <1>5, <1>6 DEF Sound, SeenBy, Seen, Ahead, Shows, Current
  <1>8. \A k \in Tabs : Sound(tab[k])'
    BY <1>4, <1>5, <1>7, OneTab
  <1> QED BY <1>4, <1>5, <1>8 DEF RuleInv, TypeOK, Dates

LEMMA ApplyStep ==
    ASSUME RuleInv, NEW t \in Tabs, Apply(t)
    PROVE  RuleInv'
  <1> DEFINE taken == [tab[t] EXCEPT !.config = tab[t].snap.rule, !.edit = tab[t].snap.rule,
                         !.version = tab[t].snap.version, !.snap = None,
                         !.born = tab[t].snap.born,
                         !.aside = IF tab[t].at = "ready" \/ tab[t].aside # None THEN tab[t].aside
                                   ELSE tab[t].edit]
             left == [tab[t] EXCEPT !.snap = None]
  <1>1. \/ tab' = [tab EXCEPT ![t] = taken]
        \/ tab' = [tab EXCEPT ![t] = left]
    BY DEF Apply, RuleInv, TypeOK, Tab
  <1>2. tab[t] \in Tab /\ tab \in [Tabs -> Tab] /\ tab[t].snap \in Data
    <2>1. tab[t] \in Tab /\ tab[t].snap # None
      BY DEF RuleInv, TypeOK, Apply
    <2> QED BY <2>1 DEF RuleInv, TypeOK, Tab
  <1>3. taken \in Tab /\ left \in Tab
    BY <1>2 DEF Tab, Data
  <1>4. PICK new \in {taken, left} :
          /\ tab' \in [Tabs -> Tab] /\ tab'[t] = new
          /\ \A k \in Tabs \ {t} : tab'[k] = tab[k]
    BY <1>1, <1>2, <1>3
  <1>5. UNCHANGED <<row, live, token, queued, applied, faults>>
    BY DEF Apply
  <1>6. /\ left.at = tab[t].at /\ left.config = tab[t].config /\ left.snap = None
        /\ left.version = tab[t].version /\ left.born = tab[t].born
        /\ left.aside = tab[t].aside /\ left.posted = tab[t].posted
        /\ left.answer = tab[t].answer
    BY <1>2 DEF Tab
  <1>7. /\ taken.at = tab[t].at /\ taken.config = tab[t].snap.rule /\ taken.snap = None
        /\ taken.version = tab[t].snap.version /\ taken.born = tab[t].snap.born
        /\ taken.posted = tab[t].posted /\ taken.answer = tab[t].answer
        /\ tab[t].at # "ready" => taken.aside # None
    BY <1>2, Numbers DEF Tab
  <1> HIDE DEF taken, left
  <1>8. Sound(tab[t])'
    <2>1. Sound(tab[t]) /\ tab[t].snap # None
      BY DEF RuleInv, Apply
    <2>2. CASE new = left
      BY <2>1, <2>2, <1>4, <1>5, <1>6 DEF Sound, SeenBy, Seen, Ahead, Shows, Current
    <2>3. CASE new = taken
      BY <2>1, <2>3, <1>4, <1>5, <1>7 DEF Sound, SeenBy, Seen, Ahead, Shows, Current
    <2> QED BY <2>2, <2>3
  <1>9. \A k \in Tabs : Sound(tab[k])'
    BY <1>4, <1>5, <1>8, OneTab
  <1> QED BY <1>4, <1>5, <1>9 DEF RuleInv, TypeOK, Dates

\* The save is given up: nothing but the state of the button changes.
LEMMA GivenUp ==
    ASSUME RuleInv, NEW t \in Tabs, GiveUp(t), tab[t].at # "closed", UNCHANGED <<row, live, token>>
    PROVE  tab' \in [Tabs -> Tab] /\ \A k \in Tabs : Sound(tab[k])'
  <1> DEFINE new == [tab[t] EXCEPT !.at = "ready", !.aside = None, !.answer = First]
  <1>1. tab' = [tab EXCEPT ![t] = new]
    BY DEF GiveUp, RuleInv, TypeOK, Tab
  <1>2. tab[t] \in Tab /\ tab \in [Tabs -> Tab]
    BY DEF RuleInv, TypeOK
  <1>3. new \in Tab
    BY <1>2, Numbers DEF Tab, At
  <1>4. tab' \in [Tabs -> Tab] /\ tab'[t] = new /\ \A k \in Tabs \ {t} : tab'[k] = tab[k]
    BY <1>1, <1>2, <1>3
  <1>5. /\ new.at = "ready" /\ new.config = tab[t].config /\ new.snap = tab[t].snap
        /\ new.version = tab[t].version /\ new.born = tab[t].born /\ new.posted = tab[t].posted
    BY <1>2 DEF Tab
  <1> HIDE DEF new
  <1>6. tab[t].at # "closed" => Sound(tab[t])'
    <2>1. Sound(tab[t])
      BY DEF RuleInv
    <2> QED BY <2>1, <1>4, <1>5 DEF Sound, SeenBy, Seen, Ahead, Shows, Current
  <1> QED BY <1>4, <1>6, OneTab

LEMMA ReadVersionStep ==
    ASSUME RuleInv, NEW t \in Tabs, ReadVersion(t)
    PROVE  RuleInv'
  <1>1. /\ UNCHANGED <<row, live, token, queued, applied>> /\ tab[t].at = "read"
        /\ faults' \in {faults, faults + 1} /\ faults' \in 0..MaxFaults
    BY Numbers DEF ReadVersion, Fault, RuleInv, TypeOK
  <1>2. Dates'
    BY <1>1, DatesKept
  <1>3. CASE GiveUp(t)
    BY <1>1, <1>2, <1>3, GivenUp DEF RuleInv, TypeOK
  <1>4. CASE /\ row # None
             /\ tab' = [tab EXCEPT ![t].at = "enqueue",
                                   ![t].answer = [version |-> row.version, born |-> row.born]]
    <2> DEFINE new == [tab[t] EXCEPT !.at = "enqueue",
                                     !.answer = [version |-> row.version, born |-> row.born]]
    <2>1. tab' = [tab EXCEPT ![t] = new]
      BY <1>4 DEF RuleInv, TypeOK, Tab
    <2>2. row \in Row /\ tab[t] \in Tab /\ tab \in [Tabs -> Tab]
      BY <1>4 DEF RuleInv, TypeOK
    <2>3. new \in Tab
      BY <2>2 DEF Tab, At, Version, Row
    <2>4. tab' \in [Tabs -> Tab] /\ tab'[t] = new /\ \A k \in Tabs \ {t} : tab'[k] = tab[k]
      BY <2>1, <2>2, <2>3
    <2>5. /\ new.at = "enqueue" /\ new.config = tab[t].config /\ new.snap = tab[t].snap
          /\ new.version = tab[t].version /\ new.born = tab[t].born
          /\ new.aside = tab[t].aside /\ new.posted = tab[t].posted
          /\ new.answer.version = row.version /\ new.answer.born = row.born
      BY <2>2 DEF Tab
    <2> HIDE DEF new
    <2>6. Sound(tab[t])'
      <3>1. Sound(tab[t])
        BY DEF RuleInv
      <3>2. Seen(row.born, row.version)
        BY <1>4, <2>2, Numbers DEF RuleInv, Dates, Seen, Row, TypeOK
      <3> QED BY <3>1, <3>2, <1>1, <2>4, <2>5 DEF Sound, SeenBy, Seen, Ahead, Shows, Current
    <2> QED BY <1>1, <1>2, <2>4, <2>6, OneTab DEF RuleInv, TypeOK
  <1> QED BY <1>3, <1>4 DEF ReadVersion

LEMMA EnqueueStep ==
    ASSUME RuleInv, NEW t \in Tabs, EnqueueSync(t)
    PROVE  RuleInv'
  <1>1. /\ UNCHANGED <<row, live, token, applied>> /\ tab[t].at = "enqueue"
        /\ queued' \in BOOLEAN
        /\ faults' \in {faults, faults + 1} /\ faults' \in 0..MaxFaults
    <2>1. UNCHANGED <<row, live, token, applied>> /\ tab[t].at = "enqueue"
      BY DEF EnqueueSync
    <2>2. queued' \in BOOLEAN
      BY DEF EnqueueSync, RuleInv, TypeOK
    <2>3. faults' \in {faults, faults + 1} /\ faults' \in 0..MaxFaults
      BY Numbers DEF EnqueueSync, Fault, RuleInv, TypeOK
    <2> QED BY <2>1, <2>2, <2>3
  <1>2. Dates'
    BY <1>1, DatesKept
  <1> DEFINE new == [tab[t] EXCEPT !.at = "reply"]
  <1>3. tab' = [tab EXCEPT ![t] = new]
    BY DEF EnqueueSync, RuleInv, TypeOK, Tab
  <1>4. tab[t] \in Tab /\ tab \in [Tabs -> Tab]
    BY DEF RuleInv, TypeOK
  <1>5. new \in Tab
    BY <1>4 DEF Tab, At
  <1>6. tab' \in [Tabs -> Tab] /\ tab'[t] = new /\ \A k \in Tabs \ {t} : tab'[k] = tab[k]
    BY <1>3, <1>4, <1>5
  <1>7. /\ new.at = "reply" /\ new.config = tab[t].config /\ new.snap = tab[t].snap
        /\ new.version = tab[t].version /\ new.born = tab[t].born
        /\ new.aside = tab[t].aside /\ new.posted = tab[t].posted /\ new.answer = tab[t].answer
    BY <1>4 DEF Tab
  <1> HIDE DEF new
  <1>8. Sound(tab[t])'
    <2>1. Sound(tab[t])
      BY DEF RuleInv
    <2> QED BY <2>1, <1>1, <1>6, <1>7 DEF Sound, SeenBy, Seen, Ahead, Shows, Current
  <1> QED BY <1>1, <1>2, <1>6, <1>8, OneTab DEF RuleInv, TypeOK

LEMMA ReplyStep ==
    ASSUME RuleInv, NEW t \in Tabs, Reply(t)
    PROVE  RuleInv'
  <1> DEFINE new == [tab[t] EXCEPT !.at = "ready", !.version = tab[t].answer.version,
                       !.config = IF tab[t].aside = None THEN tab[t].edit ELSE tab[t].aside,
                       !.dirty = FALSE, !.aside = None, !.answer = First,
                       !.born = tab[t].answer.born]
  <1>1. tab' = [tab EXCEPT ![t] = new]
    BY DEF Reply, Saved, RuleInv, TypeOK, Tab
  <1>2. tab[t] \in Tab /\ tab \in [Tabs -> Tab] /\ tab[t].at = "reply"
    BY DEF Reply, RuleInv, TypeOK
  <1>3. new \in Tab
    BY <1>2, Numbers DEF Tab, At, Version
  <1>4. tab' \in [Tabs -> Tab] /\ tab'[t] = new /\ \A k \in Tabs \ {t} : tab'[k] = tab[k]
    BY <1>1, <1>2, <1>3
  <1>5. UNCHANGED <<row, live, token, queued, applied, faults>>
    BY DEF Reply
  <1>6. /\ new.at = "ready" /\ new.snap = tab[t].snap /\ new.posted = tab[t].posted
        /\ new.version = tab[t].answer.version /\ new.born = tab[t].answer.born
    BY <1>2 DEF Tab
  <1> HIDE DEF new
  <1>7. Sound(tab[t])'
    <2>1. Sound(tab[t])
      BY DEF RuleInv
    <2> QED BY <2>1, <1>2, <1>4, <1>5, <1>6 DEF Sound, SeenBy, Seen, Ahead, Shows, Current
  <1> QED BY <1>4, <1>5, <1>7, OneTab DEF RuleInv, TypeOK, Dates

LEMMA ReplyLostStep ==
    ASSUME RuleInv, NEW t \in Tabs, ReplyLost(t)
    PROVE  RuleInv'
  <1>1. /\ UNCHANGED <<row, live, token, queued, applied>> /\ tab[t].at = "reply" /\ GiveUp(t)
        /\ faults' = faults + 1 /\ faults' \in 0..MaxFaults
    BY Numbers DEF ReplyLost, Fault, RuleInv, TypeOK
  <1>2. Dates'
    BY <1>1, DatesKept
  <1> QED BY <1>1, <1>2, GivenUp DEF RuleInv, TypeOK

\* The row gets one version further; whatever tabs know of it is behind it.
LEMMA SaveStep ==
    ASSUME RuleInv, NEW t \in Tabs, Save(t)
    PROVE  RuleInv'
  <1> DEFINE new == [tab[t] EXCEPT !.at = "read", !.posted = tab[t].edit]
  <1>1. tab' = [tab EXCEPT ![t] = new]
    BY DEF Save, RuleInv, TypeOK, Tab
  <1>2. /\ row \in Row /\ tab[t] \in Tab /\ tab \in [Tabs -> Tab] /\ row # None
        /\ tab[t].at = "ready" /\ row.version + row.born <= MaxVersion /\ Calm /\ tab[t].edit \in Rules
        /\ row.version = tab[t].version
    BY DEF Save, Matches, RuleInv, TypeOK
  <1>3. UNCHANGED <<live, token, queued, applied, faults>>
    BY DEF Save
  <1>4. new \in Tab
    BY <1>2 DEF Tab, At
  <1>5. tab' \in [Tabs -> Tab] /\ tab'[t] = new /\ \A k \in Tabs \ {t} : tab'[k] = tab[k]
    BY <1>1, <1>2, <1>4
  <1>6. /\ row' \in Row /\ row'.version = row.version + 1 /\ row'.rule = tab[t].edit
        /\ row'.born = row.born /\ row'.token = row.token
    <2>1. row' = [row EXCEPT !.rule = tab[t].edit, !.version = row.version + 1]
      BY <1>2 DEF Save, Written, Row
    <2>2. row \in Row /\ row.version + row.born <= MaxVersion /\ tab[t].edit \in Rules
      BY <1>2
    <2>3. tab[t].edit \in Tree /\ row.version + 1 \in 1..MaxVersion
      <3> HIDE DEF new
      <3>1. row.version \in 1..MaxVersion /\ row.born \in Tokens
        BY <2>2 DEF Row
      <3>2. \A v \in 1..MaxVersion, b \in Tokens : v + b <= MaxVersion => v + 1 \in 1..MaxVersion
        BY Numbers
      <3>3. row.version + 1 \in 1..MaxVersion
        BY <2>2, <3>1, <3>2
      <3> QED BY <2>2, <3>3 DEF Tree
    <2> QED BY <1>2, <2>1, <2>3 DEF Row
  <1>7. row' # None
    BY <1>6, NoneAssumption
  <1>8. /\ new.at = "read" /\ new.config = tab[t].config /\ new.snap = tab[t].snap
        /\ new.version = tab[t].version /\ new.born = tab[t].born
        /\ new.aside = tab[t].aside /\ new.posted = tab[t].edit
    BY <1>2 DEF Tab
  <1> HIDE DEF new
  <1>9. Dates'
    BY <1>2, <1>3, <1>6, <1>7 DEF RuleInv, Dates
  <1>10. ASSUME NEW b, NEW v \in Nat, Seen(b, v)
         PROVE  Seen(b, v)' /\ ~Current(b, v)'
    BY <1>2, <1>3, <1>6, <1>7, <1>10, Numbers DEF Seen, Current, Row
  <1>11. ASSUME NEW k \in Tabs PROVE Sound(tab[k])'
    <2>1. Sound(tab[k]) /\ tab[k] \in Tab
      BY <1>2 DEF RuleInv
    <2>2. /\ tab[k].version \in Nat
          /\ tab[k].answer.version \in Nat
          /\ tab[k].snap # None => tab[k].snap.version \in Nat
      BY <2>1, Numbers DEF Tab, Version, Data
    <2>3. /\ tab[k].at # "closed" => Seen(tab[k].born, tab[k].version)
          /\ tab[k].at \in {"enqueue", "reply"} => Seen(tab[k].answer.born, tab[k].answer.version)
          /\ tab[k].snap # None => Seen(tab[k].snap.born, tab[k].snap.version)
      BY <2>1 DEF Sound, SeenBy
    <2>4. CASE k = t
      <3>1. SeenBy(tab[k])'
        BY <2>2, <2>3, <2>4, <1>2, <1>5, <1>8, <1>10 DEF SeenBy
      <3>2. Ahead(tab[k])'
        BY <2>2, <2>4, <1>2, <1>5, <1>6, <1>8 DEF Ahead
      <3>3. Shows(tab[k])'
        BY <2>2, <2>3, <2>4, <1>2, <1>5, <1>6, <1>7, <1>8, <1>10 DEF Shows
      <3> QED BY <3>1, <3>2, <3>3 DEF Sound
    <2>5. CASE k # t
      <3>1. tab'[k] = tab[k]
        BY <2>5, <1>5
      <3>2. SeenBy(tab[k])'
        BY <2>2, <2>3, <3>1, <1>10 DEF SeenBy
      <3>3. Ahead(tab[k])'
        BY <2>1, <2>2, <3>1, <1>2, <1>6, Numbers DEF Sound, Ahead, Row
      <3>4. ASSUME QuickReplies PROVE Shows(tab[k])'
        <4>1. tab[k].at # "read"
          BY <3>4, <1>2 DEF Calm, Reading
        <4> QED BY <2>2, <2>3, <3>1, <4>1, <1>10 DEF Shows
      <3> QED BY <3>2, <3>3, <3>4 DEF Sound
    <2> QED BY <2>4, <2>5
  <1> QED BY <1>3, <1>5, <1>6, <1>9, <1>11 DEF RuleInv, TypeOK

-----------------------------------------------------------------------------
(* RoleLogic's calls and the jobs                                          *)

LEMMA RegisterStep ==
    ASSUME RuleInv, Register
    PROVE  RuleInv'
  <1>1. UNCHANGED <<live, token, queued, applied, tab, faults>> /\ live /\ Calm
    BY DEF Register
  <1>2. token \in Tokens
    BY DEF RuleInv, TypeOK
  <1>3. CASE row = None
    <2>1. /\ row' \in Row /\ row' # None
          /\ row'.born = token /\ row'.token = token
      BY <1>2, <1>3, Numbers DEF Register, Row
    <2>2. Dates'
      BY <1>1, <2>1, <1>2, Numbers DEF RuleInv, Dates
    <2>3. ASSUME NEW b, NEW v, Seen(b, v) PROVE Seen(b, v)' /\ ~Current(b, v)'
      BY <1>1, <1>2, <1>3, <2>1, <2>3, Numbers DEF Seen, Current
    <2>4. ASSUME NEW k \in Tabs PROVE Sound(tab[k])'
      <3>1. Sound(tab[k]) /\ tab'[k] = tab[k]
        BY <1>1 DEF RuleInv
      <3>2. SeenBy(tab[k])'
        BY <3>1, <2>3 DEF Sound, SeenBy
      <3>3. Ahead(tab[k])'
        <4>1. tab[k].at # "closed" => tab[k].born < token
          BY <3>1, <1>1, <1>3 DEF Sound, SeenBy, Seen
        <4> QED BY <3>1, <4>1, <2>1, <1>2, Numbers DEF Ahead
      <3>4. QuickReplies => Shows(tab[k])'
        BY <3>1, <1>3, <2>3 DEF Sound, SeenBy, Shows
      <3> QED BY <3>2, <3>3, <3>4 DEF Sound
    <2> QED BY <1>1, <2>1, <2>2, <2>4 DEF RuleInv, TypeOK
  <1>4. CASE row # None
    <2>1. row \in Row /\ row' = [row EXCEPT !.token = token]
      BY <1>4 DEF Register, RuleInv, TypeOK
    <2>2. /\ row' \in Row /\ row'.born = row.born /\ row'.token = token
          /\ row'.version = row.version /\ row'.rule = row.rule
      BY <1>2, <2>1 DEF Row
    <2>3. row' # None
      BY <2>2, NoneAssumption
    <2>4. Dates'
      BY <1>1, <1>2, <1>4, <2>1, <2>2, Numbers DEF RuleInv, Dates, Row
    <2>5. ASSUME NEW k \in Tabs PROVE Sound(tab[k])'
      <3>1. Sound(tab[k]) /\ tab'[k] = tab[k]
        BY <1>1 DEF RuleInv
      <3>2. ASSUME NEW b, NEW v, Seen(b, v) PROVE Seen(b, v)'
        BY <1>1, <1>2, <1>4, <2>2, <2>3, <3>2, Numbers DEF Seen
      <3>3. SeenBy(tab[k])'
        BY <3>1, <3>2 DEF Sound, SeenBy
      <3> QED BY <3>1, <3>3, <1>4, <2>2, <2>3 DEF Sound, Ahead, Shows, Current
    <2> QED BY <1>1, <2>2, <2>4, <2>5 DEF RuleInv, TypeOK
  <1> QED BY <1>3, <1>4

\* The row is dropped where nothing that a tab knows can come back: the link is
\* gone, or the row was of an older token.
LEMMA Dropped ==
    ASSUME RuleInv, Drop, Calm, UNCHANGED <<tab, token, faults>>,
           live' \in BOOLEAN, queued' \in BOOLEAN,
           live' => row # None /\ row.token # token
    PROVE  RuleInv'
  <1>1. row' = None /\ applied' \in Tree
    BY Numbers DEF Drop
  <1>2. Dates'
    BY <1>1 DEF RuleInv, Dates
  <1>3. ASSUME NEW b, NEW v, Seen(b, v) PROVE Seen(b, v)'
    <2>1. live' => row.token < token
      <3>1. CASE row = None
        BY <3>1
      <3>2. CASE row # None
        <4>1. row.token \in Nat /\ token \in Nat /\ row.token <= token
          BY <3>2, Numbers DEF RuleInv, Dates, TypeOK, Row
        <4> QED BY <4>1
      <3> QED BY <3>1, <3>2
    <2> QED BY <1>1, <1>3, <2>1 DEF Seen
  <1>4. ASSUME NEW k \in Tabs PROVE Sound(tab[k])'
    <2>1. Sound(tab[k]) /\ tab'[k] = tab[k]
      BY DEF RuleInv
    <2>2. QuickReplies => tab[k].at # "read"
      BY DEF Calm, Reading
    <2> QED BY <1>1, <1>3, <2>1, <2>2 DEF Sound, SeenBy, Ahead, Shows, Current
  <1> QED BY <1>1, <1>2, <1>4 DEF RuleInv, TypeOK

LEMMA LinkStep ==
    ASSUME RuleInv, Delete \/ Create \/ ConfigSync \/ Reconcile
    PROVE  RuleInv'
  <1>1. ASSUME Drop, Calm, UNCHANGED <<tab, token, faults>>, live' \in BOOLEAN,
               queued' \in BOOLEAN, live' => row # None /\ row.token # token
        PROVE  RuleInv'
    BY <1>1, Dropped
  <1>2. ASSUME UNCHANGED <<row, tab>>, live' \in BOOLEAN, queued' \in BOOLEAN, applied' \in Tree,
               \/ /\ UNCHANGED <<token, faults>> /\ (live' => live)
               \/ /\ token' = token + 1 /\ faults' = faults + 1
                  /\ faults < MaxFaults
        PROVE  RuleInv'
    <2>1. Dates' /\ token' \in Tokens /\ faults' \in 0..MaxFaults
      <3>1. token \in Nat \ {0} /\ faults \in Nat /\ (row # None => row \in Row)
        BY Numbers DEF RuleInv, TypeOK
      <3>2. row # None => row.token \in Nat /\ row.born \in Nat
        BY <3>1, Numbers DEF Row
      <3>3. /\ token <= faults + 1 /\ token \in 1..(MaxFaults + 1) /\ faults \in 0..MaxFaults
            /\ row # None => row.born <= row.token /\ row.token <= token
        BY DEF RuleInv, Dates, TypeOK, Tokens
      <3>4. CASE UNCHANGED <<token, faults>>
        BY <1>2, <3>3, <3>4 DEF Dates, Tokens
      <3>5. CASE token' = token + 1 /\ faults' = faults + 1 /\ faults < MaxFaults
        <4>1. token' <= faults' + 1 /\ token' \in 1..(MaxFaults + 1) /\ faults' \in 0..MaxFaults
          BY <3>1, <3>3, <3>5, Numbers
        <4>2. row # None => row.born <= row.token /\ row.token <= token'
          BY <3>1, <3>2, <3>3, <3>5
        <4> QED BY <1>2, <4>1, <4>2 DEF Dates, Tokens
      <3>6. \/ UNCHANGED <<token, faults>>
            \/ token' = token + 1 /\ faults' = faults + 1 /\ faults < MaxFaults
        BY <1>2
      <3> QED BY <3>4, <3>5, <3>6
    <2>2. ASSUME NEW b \in Nat, NEW v, Seen(b, v) PROVE Seen(b, v)'
      <3>1. token \in Nat
        BY Numbers DEF RuleInv, TypeOK
      <3>2. CASE UNCHANGED <<token, faults>> /\ (live' => live)
        BY <1>2, <2>2, <3>2 DEF Seen
      <3>3. CASE token' = token + 1
        <4>1. b <= token' /\ b < token'
          BY <2>2, <3>1, <3>3 DEF Seen
        <4> QED BY <1>2, <2>2, <4>1 DEF Seen
      <3>4. (UNCHANGED <<token, faults>> /\ (live' => live)) \/ token' = token + 1
        BY <1>2
      <3> QED BY <3>2, <3>3, <3>4
    <2>3. ASSUME NEW k \in Tabs PROVE Sound(tab[k])'
      <3>1. Sound(tab[k]) /\ tab'[k] = tab[k] /\ tab[k] \in Tab
        BY <1>2 DEF RuleInv, TypeOK
      <3>2. /\ tab[k].born \in Nat /\ tab[k].answer.born \in Nat
            /\ tab[k].snap # None => tab[k].snap.born \in Nat
        BY <3>1, Numbers DEF Tab, Version, Data
      <3>3. SeenBy(tab[k])'
        BY <3>1, <3>2, <2>2 DEF Sound, SeenBy
      <3> QED BY <1>2, <3>1, <3>3 DEF Sound, Ahead, Shows, Current
    <2> QED BY <1>2, <2>1, <2>3 DEF RuleInv, TypeOK
  <1>3. CASE Delete
    BY <1>1, <1>2, <1>3 DEF Delete, RuleInv, TypeOK
  <1>4. CASE Create
    BY <1>2, <1>4 DEF Create, Fault, RuleInv, TypeOK
  <1>5. CASE ConfigSync
    <2>1. CASE row # None /\ (~live \/ row.token # token)
      BY <1>1, <1>5, <2>1 DEF ConfigSync, RuleInv, TypeOK
    <2>2. CASE ~(row # None /\ (~live \/ row.token # token))
      <3>1. applied' \in Tree
        BY <1>5, <2>2 DEF ConfigSync, RuleInv, TypeOK, Row
      <3> QED BY <1>2, <1>5, <2>2, <3>1 DEF ConfigSync, RuleInv, TypeOK
    <2> QED BY <2>1, <2>2
  <1>6. CASE Reconcile
    BY <1>2, <1>6 DEF Reconcile, RuleInv, TypeOK
  <1> QED BY <1>3, <1>4, <1>5, <1>6

-----------------------------------------------------------------------------
LEMMA RuleInitially == Init => RuleInv
  <1> SUFFICES ASSUME Init PROVE RuleInv
    OBVIOUS
  <1>1. Closed \in Tab
    BY Numbers DEF Closed, Tab, At, Tokens
  <1>2. TypeOK
    <2>1. 1 \in Tokens /\ 0 \in 0..MaxFaults /\ Unconfigured \in Tree
      BY Numbers DEF Tokens
    <2> QED BY <1>1, <2>1 DEF Init, TypeOK
  <1>3. Dates
    BY DEF Init, Dates
  <1>4. \A t \in Tabs : Sound(tab[t])
    BY DEF Init, Closed, Sound, SeenBy, Ahead, Shows
  <1> QED BY <1>2, <1>3, <1>4 DEF RuleInv

LEMMA RuleStep == RuleInv /\ [Next]_vars => RuleInv'
  <1> SUFFICES ASSUME RuleInv, [Next]_vars PROVE RuleInv'
    OBVIOUS
  <1>1. ASSUME NEW t \in Tabs, TabStep(t) PROVE RuleInv'
    BY <1>1, LoadStep, FetchStep, ApplyStep, EditStep, SaveStep, ReadVersionStep, EnqueueStep,
       ReplyStep, ReplyLostStep
       DEF TabStep
  <1>2. CASE Register
    BY <1>2, RegisterStep
  <1>3. CASE Delete \/ Create \/ ConfigSync \/ Reconcile
    BY <1>3, LinkStep
  <1>4. CASE UNCHANGED vars
    BY <1>4 DEF vars, RuleInv, TypeOK, Dates, Sound, SeenBy, Seen, Ahead, Shows, Current
  <1> QED BY <1>1, <1>2, <1>3, <1>4 DEF Next

LEMMA RuleHolds == Spec => []RuleInv
  BY RuleInitially, RuleStep, PTL DEF Spec

\* The type invariant of a rule's row and of the tabs that show it.
THEOREM RuleTypeCorrect == Spec => []TypeOK
  <1>1. RuleInv => TypeOK
    BY DEF RuleInv
  <1> QED BY <1>1, RuleHolds, PTL

\* TabNotAhead: with any number of tabs, saves and registrations, a tab that is
\* behind has a smaller version, so that it is refused.
THEOREM NoTabIsAhead == Spec => []TabNotAhead
  <1>1. RuleInv => TabNotAhead
    BY DEF RuleInv, Sound, SeenBy, Seen, TabNotAhead
  <1> QED BY <1>1, RuleHolds, PTL

\* SecondClickRefused: the repeat of a save under way is refused whenever it
\* comes, and whatever the other tabs and RoleLogic do.
THEOREM RepeatIsRefused == Spec => []SecondClickRefused
  <1>1. RuleInv => SecondClickRefused
    <2> SUFFICES ASSUME RuleInv, NEW t \in Tabs, row # None, tab[t].born = row.born,
                        tab[t].at \in {"read", "enqueue", "reply"}, tab[t].aside = None,
                        Matches(t)
                 PROVE  FALSE
      BY DEF SecondClickRefused
    <2>1. tab[t].version < row.version /\ row.version = tab[t].version
      BY DEF RuleInv, Sound, Ahead, Matches
    <2>2. tab[t].version \in Nat
      BY Numbers DEF RuleInv, TypeOK, Tab
    <2> QED BY <2>1, <2>2
  <1> QED BY <1>1, RuleHolds, PTL

\* NoSilentClobber: as long as each save reads its version before anybody else
\* writes, a save overwrites only a rule that its tab has shown or sent.
THEOREM NobodyIsClobbered == ASSUME QuickReplies PROVE Spec => NoSilentClobber
  <1>1. RuleInv /\ [Next]_vars =>
            [\A t \in Tabs : Save(t) /\ tab[t].born = row.born =>
                 row.rule \in {tab[t].config, tab[t].posted}]_vars
    <2> SUFFICES ASSUME RuleInv, NEW t \in Tabs, Save(t), tab[t].born = row.born
                 PROVE  row.rule \in {tab[t].config, tab[t].posted}
      OBVIOUS
    <2>1. Shows(tab[t])
      BY DEF RuleInv, Sound
    <2> QED BY <2>1 DEF Save, Matches, Shows, Current
  <1> QED BY <1>1, RuleHolds, PTL DEF Spec, NoSilentClobber

-----------------------------------------------------------------------------
\* Without a row there is nothing in force, and a new one has nothing to apply.
SyncInv == (row = None => applied = Unconfigured) /\ SaveReachesSync

InSave(t) == tab[t].at \in {"read", "enqueue"}

LEMMA SyncStep == RuleInv /\ SyncInv /\ [Next]_vars => SyncInv'
  <1> SUFFICES ASSUME RuleInv, SyncInv, [Next]_vars PROVE SyncInv'
    OBVIOUS
  <1>1. /\ token \in Nat /\ faults \in Nat /\ token - 1 <= faults
        /\ tab \in [Tabs -> Tab]
    BY Numbers DEF RuleInv, TypeOK, Dates
  \* No save leaves the gap between its UPDATE and its INSERT.
  <1>2. ASSUME NEW t \in Tabs, UNCHANGED <<row, live, token, queued, applied, faults>>,
               \A k \in Tabs : InSave(k) => InSave(k)'
        PROVE  SyncInv'
    BY <1>2 DEF SyncInv, SaveReachesSync, InSave
  <1>3. ASSUME NEW t \in Tabs, Load(t) \/ Fetch(t) \/ Apply(t) \/ Reply(t)
                               \/ \E rule \in Rules : Edit(t, rule)
        PROVE  SyncInv'
    <2>1. UNCHANGED <<row, live, token, queued, applied, faults>>
      BY <1>3 DEF Load, Fetch, Apply, Reply, Edit
    <2>2. CASE Load(t)
      <3>1. \A k \in Tabs : InSave(k) => InSave(k)'
        BY <1>1, <2>2 DEF Load, Adopt, InSave, RuleInv, TypeOK, Tab
      <3> QED BY <1>2, <2>1, <3>1
    <2>3. CASE Fetch(t)
      <3>1. \A k \in Tabs : InSave(k) => InSave(k)'
        BY <1>1, <2>3 DEF Fetch, InSave, RuleInv, TypeOK, Tab
      <3> QED BY <1>2, <2>1, <3>1
    <2>4. CASE Apply(t)
      <3>1. \A k \in Tabs : InSave(k) => InSave(k)'
        BY <1>1, <2>4 DEF Apply, InSave, RuleInv, TypeOK, Tab
      <3> QED BY <1>2, <2>1, <3>1
    <2>5. CASE Reply(t)
      <3>1. \A k \in Tabs : InSave(k) => InSave(k)'
        BY <1>1, <2>5 DEF Reply, Saved, InSave, RuleInv, TypeOK, Tab
      <3> QED BY <1>2, <2>1, <3>1
    <2>6. ASSUME NEW rule \in Rules, Edit(t, rule) PROVE SyncInv'
      <3>1. \A k \in Tabs : InSave(k) => InSave(k)'
        BY <1>1, <2>6 DEF Edit, InSave, RuleInv, TypeOK, Tab
      <3> QED BY <1>2, <2>1, <3>1
    <2> QED BY <1>3, <2>2, <2>3, <2>4, <2>5, <2>6
  <1>4. ASSUME NEW t \in Tabs, Save(t) PROVE SyncInv'
    <2>1. row # None /\ row' \in Row /\ tab'[t].at = "read" /\ UNCHANGED applied
      <3>1. row # None /\ row' = [row EXCEPT !.rule = tab[t].edit, !.version = row.version + 1]
            /\ row \in Row
        BY <1>4 DEF Save, Written, Matches, RuleInv, TypeOK, Row
      <3>2. tab'[t].at = "read" /\ UNCHANGED applied
        BY <1>1, <1>4 DEF Save, Tab
      <3>3. row' \in Row
        <4>1. tab[t].edit \in Tree /\ row.version + 1 \in 1..MaxVersion
          BY <1>4, <3>1, Numbers DEF Save, Row, Tree
        <4> QED BY <3>1, <4>1 DEF Row
      <3> QED BY <3>1, <3>2, <3>3
    <2>2. row' # None
      BY <2>1, NoneAssumption
    <2> QED BY <2>1, <2>2 DEF SyncInv, SaveReachesSync
  \* A statement that fails counts as a fault, and so does a lost reply.
  <1>5. ASSUME UNCHANGED <<row, token, applied>>, faults' = faults + 1 PROVE SyncInv'
    <2>1. faults' # token' - 1
      BY <1>1, <1>5
    <2> QED BY <1>5, <2>1 DEF SyncInv, SaveReachesSync
  <1>6. ASSUME NEW t \in Tabs, ReadVersion(t) PROVE SyncInv'
    <2>1. UNCHANGED <<row, live, token, queued, applied>>
      BY <1>6 DEF ReadVersion
    <2>2. CASE row # None /\ UNCHANGED faults /\ tab' = [tab EXCEPT ![t].at = "enqueue",
                   ![t].answer = [version |-> row.version, born |-> row.born]]
      <3>1. \A k \in Tabs : InSave(k) => InSave(k)'
        BY <1>1, <2>2 DEF InSave, RuleInv, TypeOK, Tab
      <3> QED BY <2>1, <2>2, <3>1, <1>2
    <2>3. CASE row = None
      BY <2>1, <2>3 DEF SyncInv, SaveReachesSync
    <2>4. CASE Fault
      BY <2>1, <2>4, <1>5 DEF Fault
    <2> QED BY <1>6, <2>2, <2>3, <2>4 DEF ReadVersion
  <1>7. ASSUME NEW t \in Tabs, EnqueueSync(t) PROVE SyncInv'
    <2>1. UNCHANGED <<row, live, token, applied>>
      BY <1>7 DEF EnqueueSync
    <2>2. CASE queued' = TRUE
      BY <2>1, <2>2 DEF SyncInv, SaveReachesSync
    <2>3. CASE Fault
      BY <2>1, <2>3, <1>5 DEF Fault
    <2> QED BY <1>7, <2>2, <2>3 DEF EnqueueSync
  <1>8. ASSUME NEW t \in Tabs, ReplyLost(t) PROVE SyncInv'
    BY <1>5, <1>8 DEF ReplyLost, Fault
  <1>9. CASE Register
    <2>1. UNCHANGED <<live, token, queued, applied, tab, faults>>
      BY <1>9 DEF Register
    <2>2. CASE row = None
      <3>1. row' # None /\ row'.rule = Unconfigured
        BY <1>9, <2>2 DEF Register
      <3> QED BY <2>1, <2>2, <3>1 DEF SyncInv, SaveReachesSync
    <2>3. CASE row # None
      <3>1. row'.rule = row.rule
        BY <1>9, <2>3 DEF Register, RuleInv, TypeOK, Row
      <3>2. row' # None
        <4>1. row' = [row EXCEPT !.token = token] /\ row \in Row /\ token \in Tokens
          BY <1>9, <2>3 DEF Register, RuleInv, TypeOK
        <4>2. row' \in Row
          BY <4>1 DEF Row
        <4> QED BY <4>2, NoneAssumption
      <3> QED BY <2>1, <2>3, <3>1, <3>2 DEF SyncInv, SaveReachesSync
    <2> QED BY <2>2, <2>3
  <1>10. ASSUME Drop PROVE SyncInv'
    BY <1>10 DEF Drop, SyncInv, SaveReachesSync
  <1>11. CASE Delete
    BY <1>10, <1>11 DEF Delete, SyncInv, SaveReachesSync
  <1>12. CASE Create
    <2>1. faults' = token' - 1 => faults = token - 1
      BY <1>1, <1>12 DEF Create, Fault
    <2> QED BY <2>1, <1>12 DEF Create, SyncInv, SaveReachesSync
  <1>13. CASE ConfigSync
    BY <1>10, <1>13 DEF ConfigSync, SyncInv, SaveReachesSync
  <1>14. CASE Reconcile
    BY <1>14 DEF Reconcile, SyncInv, SaveReachesSync
  <1>15. CASE UNCHANGED vars
    BY <1>15 DEF vars, SyncInv, SaveReachesSync
  <1> QED BY <1>3, <1>4, <1>6, <1>7, <1>8, <1>9, <1>11, <1>12, <1>13, <1>14, <1>15
          DEF Next, TabStep

\* SaveReachesSync: with any number of tabs, no save is left without a
\* config_sync as long as the statements of its handler succeed.
THEOREM EverySaveReachesSync == Spec => []SaveReachesSync
  <1>1. Init => SyncInv
    BY DEF Init, SyncInv, SaveReachesSync
  <1>2. SyncInv => SaveReachesSync
    BY DEF SyncInv
  <1> QED BY <1>1, <1>2, SyncStep, RuleHolds, PTL DEF Spec
=============================================================================
