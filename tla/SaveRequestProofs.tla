--------------------------- MODULE SaveRequestProofs ----------------------
(***************************************************************************)
(* Proofs about both halves of a save: how long a permission outlasts its  *)
(* loss (Access), and that a rule means one thing (RuleEval).              *)
(***************************************************************************)
EXTENDS MCSaveRequest, TLAPS, WellFoundedInduction

\* What is signed expires within its lifetime and the allowances for the
\* clocks, counted from the last time the visitor managed the link.
Tethered ==
    /\ \A l \in Roles :
          /\ managed[l] <= clock
          /\ l \in manages \cup asked => managed[l] = clock
    /\ \A p \in passes : ~p.readOnly => p.expires <= managed[p.role] + PassTTL + ClockSkew
    /\ \A s \in sessions : ~s.readOnly => s.expires <= managed[s.role] + Allowance

\* RoleLogic dates a token by its own clock.
Dated == \A p \in passes : p.expires = p.issued + skew + PassTTL

AccessInv == AccessTypeOK /\ Tethered /\ Dated /\ SavesAreByManagers

LEMMA AllowanceType == Allowance \in Nat /\ PassTTL + ClockSkew + AllowedSkew + SessionTTL = Allowance
  BY PassTTLAssumption, AllowedSkewAssumption, SessionTTLAssumption, ClockSkewAssumption
     DEF Allowance

LEMMA AccessInitially == AccessInit => AccessInv
  <1> SUFFICES ASSUME AccessInit PROVE AccessInv
    OBVIOUS
  <1>1. AccessTypeOK
    BY AllowanceType, MaxClockAssumption, MaxKeysAssumption
       DEF AccessInit, AccessTypeOK, LongAgo
  <1>2. Tethered
    BY AllowanceType DEF AccessInit, Tethered, LongAgo
  <1>3. Dated /\ SavesAreByManagers
    BY AllowanceType DEF AccessInit, Dated, SavesAreByManagers
  <1> QED BY <1>1, <1>2, <1>3 DEF AccessInv

\* What a step that only adds to the passes, or forgets permissions, leaves.
LEMMA Undisturbed ==
    ASSUME AccessInv, UNCHANGED <<clock, skew, managed, sessions, passes, longest>>,
           manages' \subseteq manages, asked' \subseteq asked \cup manages
    PROVE  Tethered' /\ Dated' /\ SavesAreByManagers'
  <1>1. Tethered'
    BY DEF AccessInv, Tethered
  <1> QED BY <1>1 DEF AccessInv, Dated, SavesAreByManagers

\* A save that is accepted while the visitor's permission is within the bound.
LEMMA SavedInTime ==
    ASSUME AccessInv, NEW l \in Roles, Saves(l), clock <= managed[l] + Allowance
    PROVE  longest' \in Int /\ SavesAreByManagers'
  <1>1. clock - managed[l] \in Int /\ clock - managed[l] <= Allowance
    BY AllowanceType, MaxClockAssumption DEF AccessInv, AccessTypeOK
  <1> QED BY <1>1 DEF AccessInv, AccessTypeOK, Saves, SavesAreByManagers

LEMMA AccessStep == AccessInv /\ [AccessNext]_accessVars => AccessInv'
  <1> SUFFICES ASSUME AccessInv, [AccessNext]_accessVars PROVE AccessInv'
    OBVIOUS
  <1> USE MaxClockAssumption, MaxKeysAssumption, ClockSkewAssumption, AllowedSkewAssumption,
          PassTTLAssumption, SessionTTLAssumption
  <1>1. CASE AccessTick
    <2>1. AccessTypeOK'
      BY <1>1 DEF AccessTick, AccessInv, AccessTypeOK
    <2>2. \A l \in Roles : managed'[l] >= managed[l] /\ managed'[l] <= clock'
      BY <1>1 DEF AccessTick, AccessInv, AccessTypeOK, Tethered
    <2>3. \A l \in Roles : l \in manages' \cup asked' => managed'[l] = clock'
      BY <1>1 DEF AccessTick, AccessInv, AccessTypeOK
    <2>4. ASSUME NEW p \in passes, ~p.readOnly
          PROVE  p.expires <= managed'[p.role] + PassTTL + ClockSkew
      <3>1. p.role \in Roles /\ p.expires \in Int
        BY DEF AccessInv, AccessTypeOK, Pass
      <3>2. p.expires <= managed[p.role] + PassTTL + ClockSkew
        BY <2>4 DEF AccessInv, Tethered
      <3>3. managed[p.role] \in Int /\ managed'[p.role] \in Int
        BY <3>1, <2>1 DEF AccessInv, AccessTypeOK
      <3> QED BY <2>2, <3>1, <3>2, <3>3
    <2>5. ASSUME NEW s \in sessions, ~s.readOnly
          PROVE  s.expires <= managed'[s.role] + Allowance
      <3>1. s.role \in Roles /\ s.expires \in Int
        BY DEF AccessInv, AccessTypeOK, Visit
      <3>2. s.expires <= managed[s.role] + Allowance
        BY <2>5 DEF AccessInv, Tethered
      <3>3. managed[s.role] \in Int /\ managed'[s.role] \in Int
        BY <3>1, <2>1 DEF AccessInv, AccessTypeOK
      <3> QED BY <2>2, <3>1, <3>2, <3>3, AllowanceType
    <2>6. Tethered'
      BY <1>1, <2>2, <2>3, <2>4, <2>5, AllowanceType DEF AccessTick, Tethered, Allowance
    <2> QED BY <1>1, <2>1, <2>6 DEF AccessTick, AccessInv, Dated, SavesAreByManagers, Allowance
  <1>2. ASSUME NEW l \in Roles, Promote(l) PROVE AccessInv'
    <2>1. AccessTypeOK'
      BY <1>2 DEF Promote, AccessInv, AccessTypeOK
    <2>2. \A k \in Roles : managed'[k] >= managed[k] /\ managed'[k] <= clock
      BY <1>2 DEF Promote, AccessInv, AccessTypeOK, Tethered
    <2>3. \A k \in Roles : k \in manages' \cup asked' => managed'[k] = clock
      BY <1>2 DEF Promote, AccessInv, AccessTypeOK, Tethered
    <2>4. ASSUME NEW p \in passes, ~p.readOnly
          PROVE  p.expires <= managed'[p.role] + PassTTL + ClockSkew
      <3>1. p.role \in Roles /\ p.expires \in Int
        BY DEF AccessInv, AccessTypeOK, Pass
      <3>2. p.expires <= managed[p.role] + PassTTL + ClockSkew
        BY <2>4 DEF AccessInv, Tethered
      <3>3. managed[p.role] \in Int /\ managed'[p.role] \in Int
        BY <3>1, <2>1 DEF AccessInv, AccessTypeOK
      <3> QED BY <2>2, <3>1, <3>2, <3>3
    <2>5. ASSUME NEW s \in sessions, ~s.readOnly
          PROVE  s.expires <= managed'[s.role] + Allowance
      <3>1. s.role \in Roles /\ s.expires \in Int
        BY DEF AccessInv, AccessTypeOK, Visit
      <3>2. s.expires <= managed[s.role] + Allowance
        BY <2>5 DEF AccessInv, Tethered
      <3>3. managed[s.role] \in Int /\ managed'[s.role] \in Int
        BY <3>1, <2>1 DEF AccessInv, AccessTypeOK
      <3> QED BY <2>2, <3>1, <3>2, <3>3, AllowanceType
    <2>6. Tethered'
      BY <1>2, <2>2, <2>3, <2>4, <2>5, AllowanceType DEF Promote, Tethered, Allowance
    <2> QED BY <1>2, <2>1, <2>6 DEF Promote, AccessInv, Dated, SavesAreByManagers, Allowance
  <1>3. ASSUME NEW l \in Roles, Demote(l) \/ Renew(l) \/ StoreKey(l) \/ DropKey(l) \/ AskGateway(l)
        PROVE  AccessInv'
    <2>1. AccessTypeOK'
      BY <1>3 DEF Demote, Renew, StoreKey, DropKey, AskGateway, AccessInv, AccessTypeOK, Pass
    <2> QED BY <1>3, <2>1, Undisturbed
            DEF Demote, Renew, StoreKey, DropKey, AskGateway, AccessInv
  <1>4. ASSUME NEW l \in Roles, IssuePass(l) PROVE AccessInv'
    <2>1. PICK ro \in BOOLEAN :
            /\ l \in manages \/ ro
            /\ passes' = passes \cup {[role |-> l, key |-> signs[l], readOnly |-> ro,
                                       issued |-> clock, expires |-> clock + skew + PassTTL]}
      BY <1>4 DEF IssuePass
    <2> DEFINE new == [role |-> l, key |-> signs[l], readOnly |-> ro, issued |-> clock,
                       expires |-> clock + skew + PassTTL]
    <2>2. new \in Pass
      BY <1>4 DEF IssuePass, Pass, AccessInv, AccessTypeOK
    <2>3. UNCHANGED <<clock, skew, manages, managed, keys, signs, stored, sessions, asked, longest>>
      BY <1>4 DEF IssuePass
    <2>4. AccessTypeOK'
      BY <2>1, <2>2, <2>3 DEF AccessInv, AccessTypeOK
    <2>5. ~new.readOnly => new.expires <= managed[new.role] + PassTTL + ClockSkew
      BY <2>1 DEF AccessInv, AccessTypeOK, Tethered
    <2>6. new.expires = new.issued + skew + PassTTL
      OBVIOUS
    <2>7. passes' = passes \cup {new}
      BY <2>1
    <2> HIDE DEF new
    <2>8. Tethered'
      BY <2>3, <2>5, <2>7 DEF AccessInv, Tethered, Allowance
    <2>9. Dated' /\ SavesAreByManagers'
      BY <2>3, <2>6, <2>7 DEF AccessInv, Dated, SavesAreByManagers, Allowance
    <2> QED BY <2>4, <2>8, <2>9 DEF AccessInv
  <1>5. ASSUME NEW l \in Roles, NEW p \in passes, OpenPage(p, l) PROVE AccessInv'
    <2>1. p \in Pass /\ p.role = l /\ clock <= p.expires + AllowedSkew
      BY <1>5 DEF OpenPage, Verified, Expired, AccessInv, AccessTypeOK, Pass
    <2>2. sessions' = sessions \cup {Mint(p, l)}
      BY <1>5 DEF OpenPage
    <2>3. UNCHANGED <<clock, skew, manages, managed, keys, signs, stored, passes, asked, longest>>
      BY <1>5 DEF OpenPage
    <2>4. Mint(p, l) \in Visit
      BY <2>1 DEF Mint, Visit, Pass, AccessInv, AccessTypeOK
    <2>5. ~p.readOnly => clock + SessionTTL <= managed[l] + Allowance
      <3>1. ~p.readOnly => p.expires <= managed[l] + PassTTL + ClockSkew
        BY <2>1 DEF AccessInv, Tethered
      <3>2. p.expires \in Int /\ managed[l] \in Int /\ clock \in Int
        BY <2>1 DEF Pass, AccessInv, AccessTypeOK
      <3> QED BY <2>1, <3>1, <3>2 DEF Allowance
    <2>6. AccessTypeOK'
      BY <2>2, <2>3, <2>4 DEF AccessInv, AccessTypeOK
    <2>7. Tethered'
      BY <2>2, <2>3, <2>5 DEF AccessInv, Tethered, Mint, Allowance
    <2> QED BY <2>3, <2>6, <2>7 DEF AccessInv, Dated, SavesAreByManagers, Allowance
  <1>6. ASSUME NEW l \in Roles, NEW s \in sessions, SaveByBearer(s, l) PROVE AccessInv'
    <2>1. s \in Visit /\ s.role = l /\ ~s.readOnly /\ clock <= s.expires
      BY <1>6 DEF SaveByBearer, AccessInv, AccessTypeOK
    <2>2. s.expires <= managed[l] + Allowance
      BY <2>1 DEF AccessInv, Tethered
    <2>3. clock <= managed[l] + Allowance
      <3>1. s.expires \in Int /\ managed[l] \in Int /\ clock \in Int
        BY <2>1 DEF Visit, AccessInv, AccessTypeOK
      <3> QED BY <2>1, <2>2, <3>1, AllowanceType
    <2>4. longest' \in Int /\ SavesAreByManagers'
      BY <1>6, <2>3, SavedInTime DEF SaveByBearer
    <2>5. UNCHANGED <<clock, skew, manages, managed, keys, signs, stored, passes, sessions, asked>>
      BY <1>6 DEF SaveByBearer
    <2>6. Tethered' /\ Dated'
      BY <2>5 DEF AccessInv, Tethered, Dated, Allowance
    <2>7. AccessTypeOK'
      BY <2>4, <2>5 DEF AccessInv, AccessTypeOK
    <2> QED BY <2>4, <2>6, <2>7 DEF AccessInv
  <1>7. ASSUME NEW l \in Roles, SaveByCookie(l) PROVE AccessInv'
    <2>1. clock <= managed[l] + Allowance
      <3>1. managed[l] = clock /\ clock \in Int
        BY <1>7 DEF SaveByCookie, AccessInv, AccessTypeOK, Tethered
      <3> QED BY <3>1, AllowanceType
    <2>2. longest' \in Int /\ SavesAreByManagers'
      <3>1. CASE Saves(l)
        BY <3>1, <2>1, SavedInTime
      <3>2. CASE longest' = longest
        BY <3>2 DEF AccessInv, AccessTypeOK, SavesAreByManagers, Allowance
      <3> QED BY <1>7, <3>1, <3>2 DEF SaveByCookie
    <2>3. /\ UNCHANGED <<clock, skew, manages, managed, keys, signs, stored, passes, sessions>>
          /\ asked' = asked \ {l}
      BY <1>7 DEF SaveByCookie
    <2>4. Tethered' /\ Dated'
      BY <2>3 DEF AccessInv, Tethered, Dated, Allowance
    <2>5. AccessTypeOK'
      BY <2>2, <2>3 DEF AccessInv, AccessTypeOK
    <2> QED BY <2>2, <2>4, <2>5 DEF AccessInv
  <1>8. CASE UNCHANGED accessVars
    BY <1>8 DEF accessVars, AccessInv, AccessTypeOK, Tethered, Dated, SavesAreByManagers, Allowance
  <1> QED BY <1>1, <1>2, <1>3, <1>4, <1>5, <1>6, <1>7, <1>8 DEF AccessNext

LEMMA AccessHolds == AccessSpec => []AccessInv
  BY AccessInitially, AccessStep, PTL DEF AccessSpec

\* The type invariant of tokens, sessions and permissions.
THEOREM AccessTypeCorrect == AccessSpec => []AccessTypeOK
  <1>1. AccessInv => AccessTypeOK
    BY DEF AccessInv
  <1> QED BY <1>1, AccessHolds, PTL

\* SavesAreByManagers: no save outlasts the permission by more than the two
\* lifetimes and the two clock allowances, for any values of them, any number
\* of links, tokens and sessions.
THEOREM NoSaveLongAfterDemotion == AccessSpec => []SavesAreByManagers
  <1>1. AccessInv => SavesAreByManagers
    BY DEF AccessInv
  <1> QED BY <1>1, AccessHolds, PTL

\* FreshPassOpens: as long as the clocks differ by no more than the allowance,
\* an rl_token opens its page for its lifetime.
THEOREM PassLivesItsTime == AccessSpec => []FreshPassOpens
  <1>1. AccessInv => FreshPassOpens
    <2> SUFFICES ASSUME AccessInv, NEW p \in passes, clock <= p.issued + PassTTL,
                        stored[p.role] = p.key
                 PROVE  Verified(p, p.role)
      BY DEF FreshPassOpens
    <2>1. p \in Pass /\ p.expires = p.issued + skew + PassTTL
      BY DEF AccessInv, AccessTypeOK, Dated
    <2>2. stored[p.role] # 0
      BY <2>1 DEF Pass
    <2>3. ~(clock > p.expires + AllowedSkew)
      <3>1. /\ clock \in Int /\ p.issued \in Int
            /\ skew \in (0 - ClockSkew)..ClockSkew
        BY <2>1 DEF AccessInv, AccessTypeOK, Pass
      <3> QED BY <2>1, <3>1, ClockSkewAssumption, AllowedSkewAssumption, PassTTLAssumption
    <2> QED BY <2>2, <2>3 DEF Verified, Expired
  <1> QED BY <1>1, AccessHolds, PTL

-----------------------------------------------------------------------------
(* Two evaluators, one meaning                                             *)

\* What SQL's connectives make of a set of truth values.
LEMMA SqlAndIsTrue ==
    ASSUME NEW S \in SUBSET (BOOLEAN \cup {None})
    PROVE  SqlAnd(S) = TRUE <=> \A x \in S : x = TRUE
  BY NoneAssumption DEF SqlAnd

LEMMA SqlOrIsTrue ==
    ASSUME NEW S
    PROVE  SqlOr(S) = TRUE <=> TRUE \in S
  BY NoneAssumption DEF SqlOr

LEMMA ConditionKinds ==
    ASSUME NEW c, WellFormedCondition(c)
    PROVE  \/ /\ c.target \in {"is_supporter", "has_badge"}
              /\ TargetKind[c.target] = "bool"
           \/ /\ c.target \in {"badge_count", "days_since_last_visit", "play_count", "global_rank"}
              /\ TargetKind[c.target] = "int"
              /\ c.operator \in {"eq", "neq", "gt", "gte", "lt", "lte", "between"}
           \/ /\ c.target \in {"username", "country_code", "group_name"}
              /\ TargetKind[c.target] = "string"
              /\ c.operator \in {"eq", "neq", "contains", "regex", "in", "not_in"}
  BY DEF WellFormedCondition, Targets, TargetKind, ValidFor

LEMMA CompareIsBoolean ==
    ASSUME NEW op \in {"eq", "neq", "gt", "gte", "lt", "lte", "between"}, NEW a, NEW c
    PROVE  Compare(op, a, c) \in BOOLEAN
  <1>1. CASE op \in {"eq", "neq"}
    BY <1>1 DEF Compare
  <1>2. CASE op = "gt"
    BY <1>2 DEF Compare
  <1>3. CASE op = "gte"
    BY <1>3 DEF Compare
  <1>4. CASE op = "lt"
    BY <1>4 DEF Compare
  <1>5. CASE op = "lte"
    BY <1>5 DEF Compare
  <1>6. CASE op = "between"
    BY <1>6 DEF Compare
  <1> QED BY <1>1, <1>2, <1>3, <1>4, <1>5, <1>6

\* Both sides find the same texts in a list.
LEMMA ListsAgree ==
    ASSUME NEW v, \A x \in Items(v) : x.kind = "text" => x = Text(x.text), NEW a
    PROVE  ListContains(v, a) <=> a \in StrArray(v)
  <1>1. Text(a).kind = "text" /\ Text(a).text = a
    BY DEF Text, Blank
  <1> QED BY <1>1 DEF ListContains, StrArray

Agrees(c, p, m) ==
    /\ Clause(c, p, m) \in BOOLEAN \cup {None}
    /\ Clause(c, p, m) = TRUE <=> EvaluateSingle(c, FactsOf(p, m))

LEMMA BoolsAgree ==
    ASSUME NEW c, WellFormedCondition(c), NEW p, Recorded(p), NEW m \in Modes,
           c.target \in {"is_supporter", "has_badge"}
    PROVE  Agrees(c, p, m)
  <1> DEFINE f == FactsOf(p, m)
             x == TargetExpr(p, m, c.target)
  <1>1. x = f[c.target] /\ TargetKind[c.target] = "bool"
    BY ConditionKinds DEF TargetExpr, FactsOf
  <1>2. Clause(c, p, m) = (x = c.value.bool)
    BY <1>1 DEF Clause, BuildCondition
  <1>3. EvaluateSingle(c, f) <=> c.value.bool = f[c.target]
    BY DEF EvaluateSingle, BoolMatch
  <1> HIDE DEF x, f
  <1>4. Clause(c, p, m) \in BOOLEAN /\ (Clause(c, p, m) = TRUE <=> EvaluateSingle(c, f))
    BY <1>1, <1>2, <1>3
  <1> QED BY <1>4 DEF Agrees, f

LEMMA IntsAgree ==
    ASSUME NEW c, WellFormedCondition(c), NEW p, Recorded(p), NEW m \in Modes,
           c.target \in {"badge_count", "days_since_last_visit", "play_count", "global_rank"}
    PROVE  Agrees(c, p, m)
  <1> DEFINE f == FactsOf(p, m)
             x == TargetExpr(p, m, c.target)
  <1>1. TargetKind[c.target] = "int" /\ Compare(c.operator, x, c) \in BOOLEAN
    BY ConditionKinds, CompareIsBoolean
  <1>2. Clause(c, p, m) = IF x = None THEN None ELSE Compare(c.operator, x, c)
    BY <1>1 DEF Clause, BuildCondition
  <1>3. EvaluateSingle(c, f) <=> IntMatch(c, x)
    <2>1. CASE c.target = "badge_count"
      BY <2>1 DEF EvaluateSingle, TargetExpr, FactsOf
    <2>2. CASE c.target = "days_since_last_visit"
      <3>1. x = IF f.last_visit = None THEN None ELSE Trunc(f.last_visit)
        BY <2>2 DEF TargetExpr, FactsOf, Recorded, Trunc, Floor
      <3> QED BY <2>2, <3>1 DEF EvaluateSingle
    <2>3. CASE c.target = "play_count"
      <3>1. x = f.play_count
        BY <2>3, NoneAssumption DEF TargetExpr, FactsOf, Recorded, Coalesce, Column
      <3> QED BY <2>3, <3>1 DEF EvaluateSingle
    <2>4. CASE c.target = "global_rank"
      <3>1. x = f.global_rank
        BY <2>4 DEF TargetExpr, FactsOf, Column
      <3> QED BY <2>4, <3>1 DEF EvaluateSingle
    <2> QED BY <2>1, <2>2, <2>3, <2>4
  <1> HIDE DEF x, f
  <1>4. /\ Clause(c, p, m) \in BOOLEAN \cup {None}
        /\ Clause(c, p, m) = TRUE <=> EvaluateSingle(c, f)
    BY <1>1, <1>2, <1>3, NoneAssumption DEF IntMatch
  <1> QED BY <1>4 DEF Agrees, f

LEMMA StrictIsTrue ==
    ASSUME NEW x, NEW result \in BOOLEAN
    PROVE  /\ Strict(x, result) \in BOOLEAN \cup {None}
           /\ Strict(x, result) = TRUE <=> x # None /\ result
  BY NoneAssumption DEF Strict

LEMMA TextsAgree ==
    ASSUME NEW c, WellFormedCondition(c), NEW p, NEW m \in Modes,
           c.target \in {"username", "country_code"}
    PROVE  Agrees(c, p, m)
  <1> DEFINE f == FactsOf(p, m)
             x == TargetExpr(p, m, c.target)
             S == StrArray(c.value)
             op == c.operator
  <1>1. TargetKind[c.target] = "string" /\ op \in {"eq", "neq", "contains", "regex", "in", "not_in"}
    BY ConditionKinds
  <1>2. EvaluateSingle(c, f) <=> StringMatch(c, x)
    <2>1. x = f[c.target]
      BY DEF TargetExpr, FactsOf
    <2> HIDE DEF x, f
    <2>2. EvaluateSingle(c, f) <=> StringMatch(c, f[c.target])
      BY DEF EvaluateSingle
    <2> QED BY <2>1, <2>2
  <1>3. op \in {"in", "not_in"} => S # {} /\ (ListContains(c.value, x) <=> x \in S)
    BY ListsAgree DEF WellFormedCondition
  <1>4. c.target # "group_name" /\ Clause(c, p, m) = BuildCondition(c, p, m)
    BY DEF Clause
  <1> HIDE DEF f, S
  <1>5. /\ BuildCondition(c, p, m) \in BOOLEAN \cup {None}
        /\ BuildCondition(c, p, m) = TRUE <=> StringMatch(c, x)
    <2>1. CASE op = "eq"
      <3> DEFINE result == (x = c.value.text)
      <3>1. BuildCondition(c, p, m) = Strict(x, result)
        BY <2>1, <1>1 DEF BuildCondition
      <3>2. StringMatch(c, x) <=> x # None /\ result
        BY <2>1 DEF StringMatch
      <3>3. result \in BOOLEAN
        OBVIOUS
      <3> HIDE DEF result
      <3> QED BY <3>1, <3>2, <3>3, StrictIsTrue
    <2>2. CASE op = "neq"
      <3>1. BuildCondition(c, p, m) = (x # c.value.text)
        BY <2>2, <1>1 DEF BuildCondition
      <3>2. StringMatch(c, x) <=> x = None \/ x # c.value.text
        BY <2>2 DEF StringMatch
      <3>3. c.value.text # None
        BY NoneAssumption DEF WellFormedCondition
      <3> QED BY <3>1, <3>2, <3>3
    <2>3. CASE op = "contains"
      <3> DEFINE result == (<<c.value.text, x>> \in Within)
      <3>1. BuildCondition(c, p, m) = Strict(x, result)
        BY <2>3, <1>1 DEF BuildCondition
      <3>2. StringMatch(c, x) <=> x # None /\ result
        BY <2>3 DEF StringMatch
      <3>3. result \in BOOLEAN
        OBVIOUS
      <3> HIDE DEF result
      <3> QED BY <3>1, <3>2, <3>3, StrictIsTrue
    <2>4. CASE op = "regex"
      <3> DEFINE result == (<<c.value.text, x>> \in Matches)
      <3>1. BuildCondition(c, p, m) = Strict(x, result)
        BY <2>4, <1>1 DEF BuildCondition
      <3>2. StringMatch(c, x) <=> x # None /\ result
        BY <2>4 DEF StringMatch
      <3>3. result \in BOOLEAN
        OBVIOUS
      <3> HIDE DEF result
      <3> QED BY <3>1, <3>2, <3>3, StrictIsTrue
    <2>5. CASE op = "in"
      <3> DEFINE result == (x \in S)
      <3>1. BuildCondition(c, p, m) = Strict(x, result)
        BY <2>5, <1>1, <1>3 DEF BuildCondition, S
      <3>2. StringMatch(c, x) <=> x # None /\ result
        BY <2>5, <1>3 DEF StringMatch
      <3>3. result \in BOOLEAN
        OBVIOUS
      <3> HIDE DEF result
      <3> QED BY <3>1, <3>2, <3>3, StrictIsTrue
    <2>6. CASE op = "not_in"
      <3>1. BuildCondition(c, p, m) = (x # None /\ x \notin S)
        BY <2>6, <1>1, <1>3 DEF BuildCondition, S
      <3>2. StringMatch(c, x) <=> x # None /\ x \notin S
        BY <2>6, <1>3 DEF StringMatch
      <3> QED BY <3>1, <3>2
    <2> QED BY <1>1, <2>1, <2>2, <2>3, <2>4, <2>5, <2>6
  <1> QED BY <1>2, <1>4, <1>5 DEF Agrees, f

LEMMA GroupsAgree ==
    ASSUME NEW c, WellFormedCondition(c), NEW p, NEW m \in Modes, c.target = "group_name"
    PROVE  Agrees(c, p, m)
  <1> DEFINE f == FactsOf(p, m)
             S == StrArray(c.value)
             op == c.operator
  <1>1. op \in {"eq", "neq", "contains", "regex", "in", "not_in"}
    BY ConditionKinds
  <1>2. EvaluateSingle(c, f) <=> ListStringMatch(c, p.groups)
    BY DEF EvaluateSingle, FactsOf
  <1>3. op \in {"in", "not_in"} => \A a : ListContains(c.value, a) <=> a \in S
    BY ListsAgree DEF WellFormedCondition
  <1>4. Clause(c, p, m) = BuildArrayCondition(c, p)
    BY DEF Clause
  <1>5. /\ BuildArrayCondition(c, p) \in BOOLEAN
        /\ BuildArrayCondition(c, p) = TRUE <=> ListStringMatch(c, p.groups)
    <2>1. CASE op = "eq"
      BY <2>1 DEF BuildArrayCondition, ListStringMatch
    <2>2. CASE op = "neq"
      BY <2>2 DEF BuildArrayCondition, ListStringMatch
    <2>3. CASE op = "contains"
      BY <2>3 DEF BuildArrayCondition, ListStringMatch
    <2>4. CASE op = "regex"
      BY <2>4 DEF BuildArrayCondition, ListStringMatch
    <2>5. CASE op = "in"
      <3> HIDE DEF S
      <3>1. S \cap p.groups # {} <=> \E a \in p.groups : ListContains(c.value, a)
        BY <2>5, <1>3
      <3> QED BY <2>5, <3>1 DEF BuildArrayCondition, ListStringMatch, S
    <2>6. CASE op = "not_in"
      <3> HIDE DEF S
      <3>1. S \cap p.groups = {} <=> \A a \in p.groups : ~ListContains(c.value, a)
        BY <2>6, <1>3
      <3> QED BY <2>6, <3>1 DEF BuildArrayCondition, ListStringMatch, S
    <2> QED BY <1>1, <2>1, <2>2, <2>3, <2>4, <2>5, <2>6
  <1> HIDE DEF f
  <1> QED BY <1>2, <1>4, <1>5 DEF Agrees, f

LEMMA ConditionsAgree ==
    ASSUME NEW c, WellFormedCondition(c), NEW p, Recorded(p), NEW m \in Modes
    PROVE  Agrees(c, p, m)
  BY ConditionKinds, BoolsAgree, IntsAgree, TextsAgree, GroupsAgree

LEMMA GroupAgrees ==
    ASSUME NEW g, \A k \in DOMAIN g : WellFormedCondition(g[k]),
           NEW p, Recorded(p), NEW m \in Modes
    PROVE  SqlAnd({Clause(g[k], p, m) : k \in DOMAIN g}) = TRUE
              <=> \A k \in DOMAIN g : EvaluateSingle(g[k], FactsOf(p, m))
  <1> DEFINE S == {Clause(g[k], p, m) : k \in DOMAIN g}
  <1>0. \A k \in DOMAIN g : Clause(g[k], p, m) \in BOOLEAN \cup {None}
    BY ConditionsAgree DEF Agrees
  <1>1. \A k \in DOMAIN g : Clause(g[k], p, m) = TRUE <=> EvaluateSingle(g[k], FactsOf(p, m))
    BY ConditionsAgree DEF Agrees
  <1>2. ASSUME NEW x \in S PROVE x \in BOOLEAN \cup {None}
    <2>1. PICK k \in DOMAIN g : x = Clause(g[k], p, m)
      OBVIOUS
    <2> QED BY <1>0, <2>1
  <1>3. SqlAnd(S) = TRUE <=> \A x \in S : x = TRUE
    <2> HIDE DEF S
    <2>1. S \in SUBSET (BOOLEAN \cup {None})
      BY <1>2
    <2> QED BY <2>1, SqlAndIsTrue
  <1>4. (\A x \in S : x = TRUE) <=> \A k \in DOMAIN g : Clause(g[k], p, m) = TRUE
    OBVIOUS
  <1> QED BY <1>1, <1>3, <1>4

\* For every well-formed rule and every player, whatever the texts, patterns
\* and numbers: condition_eval.rs grants where the WHERE of rule_sql.rs selects.
THEOREM EvaluatorsAlwaysAgree ==
    ASSUME NEW t, WellFormed(t), NEW p, Recorded(p)
    PROVE  Evaluate(t, FactsOf(p, t.mode)) <=> Selected(t, p)
  <1> DEFINE f == FactsOf(p, t.mode)
             Sql(g) == SqlAnd({Clause(g[k], p, t.mode) : k \in DOMAIN g})
             Row(g) == IF g = <<>> THEN FALSE ELSE Sql(g)
             Holds(g) == g # <<>> /\ \A k \in DOMAIN g : EvaluateSingle(g[k], f)
             S == {Row(t.groups[i]) : i \in DOMAIN t.groups}
  <1>1. CASE t.any
    BY <1>1 DEF Evaluate, Selected, BuildRuleWhere
  <1>2. CASE ~t.any
    <2>1. ASSUME NEW i \in DOMAIN t.groups
          PROVE  Row(t.groups[i]) = TRUE <=> Holds(t.groups[i])
      <3>1. /\ t.mode \in Modes
            /\ \A k \in DOMAIN t.groups[i] : WellFormedCondition(t.groups[i][k])
        BY DEF WellFormed
      <3>2. Sql(t.groups[i]) = TRUE <=> \A k \in DOMAIN t.groups[i] : EvaluateSingle(t.groups[i][k], f)
        BY <3>1, GroupAgrees
      <3> HIDE DEF Sql, f
      <3> QED BY <3>2
    <2>2. Evaluate(t, f) <=> \E i \in DOMAIN t.groups : Holds(t.groups[i])
      BY <1>2 DEF Evaluate
    <2>3. BuildRuleWhere(t, p) = SqlOr(S)
      BY <1>2 DEF BuildRuleWhere
    <2>4. Selected(t, p) <=> TRUE \in S
      <3> HIDE DEF S
      <3> QED BY <2>3, SqlOrIsTrue DEF Selected
    <2>5. TRUE \in S <=> \E i \in DOMAIN t.groups : Row(t.groups[i]) = TRUE
      <3> HIDE DEF Row
      <3> QED OBVIOUS
    <2> HIDE DEF Row, Holds, S
    <2> QED BY <2>1, <2>2, <2>4, <2>5
  <1> QED BY <1>1, <1>2 DEF WellFormed

\* A condition on a datum that is missing does not hold.
LEMMA MissingFails ==
    ASSUME NEW c, WellFormedCondition(c), NEW p, NEW m \in Modes, Missing(c, FactsOf(p, m))
    PROVE  ~EvaluateSingle(c, FactsOf(p, m))
  <1> DEFINE f == FactsOf(p, m)
  <1> HIDE DEF f
  <1>1. CASE c.target = "days_since_last_visit"
    <2>1. f.last_visit = None
      BY <1>1 DEF Missing, f
    <2> QED BY <1>1, <2>1 DEF EvaluateSingle, IntMatch, f
  <1>2. CASE c.target = "global_rank"
    <2>1. f["global_rank"] = None
      BY <1>2 DEF Missing, f
    <2> QED BY <1>2, <2>1 DEF EvaluateSingle, IntMatch, f
  <1>3. CASE c.target = "country_code"
    <2>1. f["country_code"] = None /\ c.operator # "neq"
      BY <1>3 DEF Missing, f
    <2> QED BY <1>3, <2>1 DEF EvaluateSingle, StringMatch, f
  <1>4. CASE c.target = "group_name"
    <2>1. f.groups = {} /\ c.operator \in {"eq", "contains", "regex", "in"}
      BY <1>4, ConditionKinds DEF Missing, f
    <2>2. ~ListStringMatch(c, {})
      BY <2>1 DEF ListStringMatch
    <2> QED BY <1>4, <2>1, <2>2 DEF EvaluateSingle, f
  <1> QED BY <1>1, <1>2, <1>3, <1>4 DEF Missing

\* For every well-formed rule and every player: who lacks a datum that each of
\* the rule's groups asks for is granted nothing, by neither evaluator.
THEOREM MissingDataGrantNothing ==
    ASSUME NEW t, WellFormed(t), ~t.any, NEW p, Recorded(p),
           \A i \in DOMAIN t.groups :
               \E k \in DOMAIN t.groups[i] : Missing(t.groups[i][k], FactsOf(p, t.mode))
    PROVE  ~Evaluate(t, FactsOf(p, t.mode)) /\ ~Selected(t, p)
  <1>1. ASSUME NEW i \in DOMAIN t.groups
        PROVE  \E k \in DOMAIN t.groups[i] : ~EvaluateSingle(t.groups[i][k], FactsOf(p, t.mode))
    <2>1. PICK k \in DOMAIN t.groups[i] : Missing(t.groups[i][k], FactsOf(p, t.mode))
      OBVIOUS
    <2>2. WellFormedCondition(t.groups[i][k]) /\ t.mode \in Modes
      BY DEF WellFormed
    <2> QED BY <2>1, <2>2, MissingFails
  <1>2. ~Evaluate(t, FactsOf(p, t.mode))
    BY <1>1 DEF Evaluate
  <1> QED BY <1>2, EvaluatorsAlwaysAgree

\* A condition that is not lenient does not come to hold by the loss of a datum.
LEMMA LossGainsNothing ==
    ASSUME NEW c, WellFormedCondition(c), ~Lenient(c), NEW p, Recorded(p), NEW m \in Modes,
           NEW q, LessKnown(q, p, m), EvaluateSingle(c, FactsOf(q, m))
    PROVE  EvaluateSingle(c, FactsOf(p, m))
  <1> DEFINE f == FactsOf(p, m)
             g == FactsOf(q, m)
  <1>1. /\ g["is_supporter"] = f["is_supporter"] /\ g["has_badge"] = f["has_badge"]
        /\ g["badge_count"] = f["badge_count"] /\ g["username"] = f["username"]
    BY DEF LessKnown, SameProfile, FactsOf
  <1>2. g.last_visit \in {f.last_visit, None} /\ g["country_code"] \in {f["country_code"], None}
    BY DEF LessKnown, FactsOf
  <1>3. g.groups \subseteq f.groups
    BY DEF LessKnown, FactsOf
  <1>4. g["global_rank"] \in {f["global_rank"], None}
    BY DEF LessKnown, FactsOf
  <1>5. f["play_count"] \in Nat /\ g["play_count"] \in {f["play_count"], 0}
    BY DEF LessKnown, FactsOf, Recorded
  <1>6. EvaluateSingle(c, g)
    OBVIOUS
  <1> SUFFICES EvaluateSingle(c, f)
    OBVIOUS
  <1> HIDE DEF f, g
  <1>7. CASE c.target \in {"is_supporter", "has_badge"}
    <2>1. \A h : EvaluateSingle(c, h) <=> BoolMatch(c, h[c.target])
      BY <1>7 DEF EvaluateSingle
    <2>2. g[c.target] = f[c.target]
      BY <1>1, <1>7
    <2> QED BY <1>6, <2>1, <2>2
  <1>8. CASE c.target \in {"badge_count", "play_count", "global_rank"}
    <2>1. \A h : EvaluateSingle(c, h) <=> IntMatch(c, h[c.target])
      BY <1>8 DEF EvaluateSingle
    <2>2. CASE c.target = "badge_count"
      BY <1>1, <1>6, <2>1, <2>2
    <2>3. CASE c.target = "global_rank"
      <3>1. g["global_rank"] # None
        BY <1>6, <2>1, <2>3 DEF IntMatch
      <3> QED BY <1>4, <1>6, <2>1, <2>3, <3>1
    <2>4. CASE c.target = "play_count"
      <3>1. c.operator \in {"gt", "gte"} /\ Compare(c.operator, g["play_count"], c)
        BY <1>6, <2>1, <2>4 DEF Lenient, IntMatch
      <3>2. AsInt(c.value) \in Int
        BY DEF WellFormedCondition, AsInt, Floor
      <3>3. Compare(c.operator, f["play_count"], c)
        <4>1. CASE c.operator = "gt"
          BY <1>5, <3>1, <3>2, <4>1 DEF Compare
        <4>2. CASE c.operator = "gte"
          BY <1>5, <3>1, <3>2, <4>2 DEF Compare
        <4> QED BY <3>1, <4>1, <4>2
      <3>4. f["play_count"] # None
        BY <1>5, NoneAssumption
      <3> QED BY <2>1, <2>4, <3>3, <3>4 DEF IntMatch
    <2> QED BY <1>8, <2>2, <2>3, <2>4
  <1>9. CASE c.target = "days_since_last_visit"
    <2>1. \A h : EvaluateSingle(c, h)
                    <=> IntMatch(c, IF h.last_visit = None THEN None ELSE Trunc(h.last_visit))
      BY <1>9 DEF EvaluateSingle
    <2>2. g.last_visit # None
      BY <1>6, <2>1 DEF IntMatch
    <2> QED BY <1>2, <1>6, <2>1, <2>2
  <1>10. CASE c.target \in {"username", "country_code"}
    <2>1. \A h : EvaluateSingle(c, h) <=> StringMatch(c, h[c.target])
      BY <1>10 DEF EvaluateSingle
    <2>2. CASE c.target = "username"
      BY <1>1, <1>6, <2>1, <2>2
    <2>3. CASE c.target = "country_code"
      <3>1. g["country_code"] # None
        BY <1>6, <2>1, <2>3 DEF StringMatch, Lenient
      <3> QED BY <1>2, <1>6, <2>1, <2>3, <3>1
    <2> QED BY <1>10, <2>2, <2>3
  <1>11. CASE c.target = "group_name"
    <2>1. \A h : EvaluateSingle(c, h) <=> ListStringMatch(c, h.groups)
      BY <1>11 DEF EvaluateSingle
    <2>2. c.operator \in {"eq", "contains", "regex", "in"} /\ ListStringMatch(c, g.groups)
      BY <1>6, <1>11, <2>1, ConditionKinds DEF Lenient
    <2>3. ListStringMatch(c, f.groups)
      <3>1. CASE c.operator = "eq"
        BY <1>3, <2>2, <3>1 DEF ListStringMatch
      <3>2. CASE c.operator = "contains"
        BY <1>3, <2>2, <3>2 DEF ListStringMatch
      <3>3. CASE c.operator = "regex"
        BY <1>3, <2>2, <3>3 DEF ListStringMatch
      <3>4. CASE c.operator = "in"
        BY <1>3, <2>2, <3>4 DEF ListStringMatch
      <3> QED BY <2>2, <3>1, <3>2, <3>3, <3>4
    <2> QED BY <2>1, <2>3
  <1> QED BY <1>7, <1>8, <1>9, <1>10, <1>11, ConditionKinds

\* For every well-formed rule that is not lenient and every player: whoever has
\* the role by the rule, by either evaluator, has it with more data, too; a
\* datum that is lost never gains him the role.
THEOREM LostDataGrantNothing ==
    ASSUME NEW t, WellFormed(t), ~LenientRule(t), NEW p, Recorded(p),
           NEW q, Recorded(q), LessKnown(q, p, t.mode)
    PROVE  /\ Evaluate(t, FactsOf(q, t.mode)) => Evaluate(t, FactsOf(p, t.mode))
           /\ Selected(t, q) => Selected(t, p)
  <1>1. ASSUME NEW i \in DOMAIN t.groups, NEW k \in DOMAIN t.groups[i],
               EvaluateSingle(t.groups[i][k], FactsOf(q, t.mode))
        PROVE  EvaluateSingle(t.groups[i][k], FactsOf(p, t.mode))
    <2>1. WellFormedCondition(t.groups[i][k]) /\ ~Lenient(t.groups[i][k]) /\ t.mode \in Modes
      BY DEF WellFormed, LenientRule
    <2> QED BY <1>1, <2>1, LossGainsNothing
  <1>2. Evaluate(t, FactsOf(q, t.mode)) => Evaluate(t, FactsOf(p, t.mode))
    BY <1>1 DEF Evaluate
  <1> QED BY <1>2, EvaluatorsAlwaysAgree

\* For every well-formed rule: a player without a row of statistics for its mode
\* is judged, by both evaluators, like one whose row has no rank and zeros.
THEOREM NoRowIsZeros ==
    ASSUME NEW t, WellFormed(t), NEW p, Recorded(p), NEW q, Recorded(q), ZeroRow(q, p, t.mode)
    PROVE  /\ Evaluate(t, FactsOf(q, t.mode)) <=> Evaluate(t, FactsOf(p, t.mode))
           /\ Selected(t, q) <=> Selected(t, p)
  <1>1. q.stats[t.mode] # None
    <2>1. [rank |-> None, plays |-> 0] # None
      BY RowAssumption
    <2> QED BY <2>1 DEF ZeroRow
  <1>2. FactsOf(q, t.mode) = FactsOf(p, t.mode)
    BY <1>1 DEF ZeroRow, SameProfile, FactsOf
  <1> QED BY <1>2, EvaluatorsAlwaysAgree

\* An unconfigured rule is what a link starts with, and never what a save stores.
LEMMA NeverUnconfigured ==
    ASSUME NEW b, b.groups = <<>> \/ 1 \in DOMAIN b.groups
    PROVE  ParseRuleTree(b) # Unconfigured
  <1> SUFFICES ASSUME ParseRuleTree(b) = Unconfigured PROVE FALSE
    OBVIOUS
  <1>1. ParseRuleTree(b) # None
    BY RefusalAssumption
  <1>2. CASE b.any
    <2>1. ParseRuleTree(b).any = b.any
      BY <1>1 DEF ParseRuleTree
    <2>2. ~ParseRuleTree(b).any
      BY DEF Unconfigured
    <2> HIDE DEF Unconfigured
    <2> QED BY <1>2, <2>1, <2>2, Zenon
  <1>3. CASE ~b.any
    <2>1. b.groups # <<>>
      BY <1>1, <1>3 DEF ParseRuleTree
    <2>2. ParseRuleTree(b).groups = [i \in DOMAIN b.groups |-> ParseGroup(b.groups[i])]
      BY <1>1, <1>3 DEF ParseRuleTree
    <2>3. 1 \in DOMAIN ParseRuleTree(b).groups
      BY <2>1, <2>2
    <2>4. DOMAIN Unconfigured.groups = {}
      BY DEF Unconfigured
    <2> HIDE DEF Unconfigured
    <2> QED BY <2>3, <2>4
  <1> QED BY <1>2, <1>3

LEMMA PlayersAreRecorded == \A p \in Players : Recorded(p)
  <1> DEFINE Rows == {None, [rank |-> None, plays |-> 0], [rank |-> 2, plays |-> 2]}
  <1>1. /\ Base.supporter \in BOOLEAN /\ Base.badges \in Nat /\ Base.age = None
        /\ \A m \in Modes : Base.stats[m] = None
    BY DEF Base
  <1>2. ASSUME NEW c, NEW gs, NEW s \in Rows PROVE Recorded(Fan(c, gs, s))
    <2> DEFINE p == Fan(c, gs, s)
    <2>1. p.supporter = Base.supporter /\ p.badges = Base.badges /\ p.age = Base.age
      BY DEF Base, Fan
    <2>2. \A m \in Modes : p.stats[m] # None => p.stats[m].plays \in Nat
      BY DEF Base, Fan, Modes
    <2> HIDE DEF p
    <2>3. Recorded(p)
      BY <1>1, <2>1, <2>2 DEF Recorded
    <2> QED BY <2>3 DEF p
  <1>3. ASSUME NEW a \in Ages, NEW b \in {0, 2} PROVE Recorded(Guest(a, b))
    <2> DEFINE p == Guest(a, b)
    <2>1. p.supporter = (b = 0) /\ p.badges = b /\ p.age = a /\ p.stats = Base.stats
      BY DEF Base, Guest
    <2> HIDE DEF p
    <2>2. p.badges \in Nat /\ (p.age = None \/ p.age \in Nat)
      BY <2>1 DEF Ages
    <2>3. (b = 0) \in BOOLEAN
      OBVIOUS
    <2>4. p.supporter \in BOOLEAN
      BY <2>1, <2>3, Zenon
    <2>5. \A m \in Modes : p.stats[m] # None => p.stats[m].plays \in Nat
      BY <1>1, <2>1
    <2>6. Recorded(p)
      BY <2>2, <2>4, <2>5, Zenon DEF Recorded
    <2> QED BY <2>6 DEF p
  <1>4. Recorded(Drummer)
    <2>1. /\ Drummer.supporter = Base.supporter
          /\ Drummer.badges = Base.badges
          /\ Drummer.age = Base.age
      BY DEF Base, Drummer
    <2>2. \A m \in Modes : Drummer.stats[m] # None => Drummer.stats[m].plays \in Nat
      BY DEF Base, Drummer, Modes
    <2> QED BY <1>1, <2>1, <2>2 DEF Recorded
  <1> QED BY <1>2, <1>3, <1>4 DEF Players

\* A body of the run has no groups, or a first one.
LEMMA GroupsAreLists == \A b \in Bodies : b.groups = <<>> \/ 1 \in DOMAIN b.groups
  <1> DEFINE A == {Body(gs) : gs \in Groups}
             B == {Posted(a, m, c) : a \in BOOLEAN, m \in {"taiko", "ctb", "drums"}, c \in Part}
  <1>1. \A g \in Groups : g = <<>> \/ 1 \in DOMAIN g
    BY DEF Groups
  <1>2. ASSUME NEW b \in A PROVE b.groups = <<>> \/ 1 \in DOMAIN b.groups
    <2>1. PICK gs \in Groups : b = Body(gs)
      OBVIOUS
    <2>2. b.groups = gs
      BY <2>1 DEF Body
    <2> QED BY <1>1, <2>2
  <1>3. \A a, m, c : 1 \in DOMAIN Posted(a, m, c).groups
    BY DEF Posted
  <1>4. ASSUME NEW b \in B PROVE 1 \in DOMAIN b.groups
    <2>1. PICK a \in BOOLEAN, m \in {"taiko", "ctb", "drums"}, c \in Part : b = Posted(a, m, c)
      OBVIOUS
    <2>2. 1 \in DOMAIN Posted(a, m, c).groups
      BY <1>3
    <2> QED BY <2>1, <2>2
  <1>5. Bodies = A \cup B
    BY DEF Bodies
  <1> HIDE DEF A, B
  <1> QED BY <1>2, <1>4, <1>5

\* The posted body keeps its groups, and the player stays in the tables.
RequestInv == Recorded(player) /\ (body.groups = <<>> \/ 1 \in DOMAIN body.groups)

LEMMA RequestInvariant == Spec => []RequestInv
  <1>1. Init => RequestInv
    BY PlayersAreRecorded, GroupsAreLists DEF Init, RequestInv
  <1>2. RequestInv /\ [Next]_vars => RequestInv'
    BY DEF RequestInv, Recorded, Next, Save, vars
  <1> QED BY <1>1, <1>2, PTL DEF Spec

-----------------------------------------------------------------------------
(* Induction, by the least number that is not in a set                     *)

LEMMA LessIsWellFounded == IsWellFoundedOn({ss \in Nat \X Nat : ss[1] < ss[2]}, Nat)
  BY NatLessThanWellFounded DEF OpToRel

LEMMA LeastNumber ==
    ASSUME NEW T \in SUBSET Nat, T # {}
    PROVE  \E m \in T : \A k \in T : m <= k
  <1> DEFINE R == {ss \in Nat \X Nat : ss[1] < ss[2]}
  <1>1. IsWellFoundedOn(R, Nat)
    BY LessIsWellFounded
  <1> HIDE DEF R
  <1>2. PICK m \in T : \A k \in T : ~(<<k, m>> \in R)
    BY <1>1, WFMin
  <1>3. \A k \in T : ~(k < m)
    BY <1>2 DEF R
  <1> QED BY <1>3

LEMMA UpTo ==
    ASSUME NEW N \in Nat, NEW G, 0 \in G, \A n \in 1..N : n - 1 \in G => n \in G
    PROVE  0..N \subseteq G
  <1> DEFINE T == {n \in 0..N : n \notin G}
  <1> SUFFICES ASSUME T # {} PROVE FALSE
    OBVIOUS
  <1>1. PICK m \in T : \A k \in T : m <= k
    <2>1. T \in SUBSET Nat
      OBVIOUS
    <2> HIDE DEF T
    <2> QED BY <2>1, LeastNumber
  <1>2. m \in 1..N /\ m - 1 \in G
    BY <1>1
  <1> QED BY <1>1, <1>2

-----------------------------------------------------------------------------
(* The filter of a list                                                    *)

Skipped == {Null, Text("")}

\* The equation that Kept's function solves, as far as N.
Filters(vs, N, f) ==
    f = [n \in 0..N |-> IF n = 0 THEN <<>>
                        ELSE IF vs[n] \in Skipped THEN f[n - 1] ELSE Append(f[n - 1], vs[n])]

LEMMA FilterSteps ==
    ASSUME NEW vs, NEW N \in Nat, NEW f, Filters(vs, N, f)
    PROVE  /\ f[0] = <<>>
           /\ \A n \in 1..N :
                 f[n] = IF vs[n] \in Skipped THEN f[n - 1] ELSE Append(f[n - 1], vs[n])
  <1>1. \A n \in 0..N : f[n] = IF n = 0 THEN <<>>
                               ELSE IF vs[n] \in Skipped THEN f[n - 1] ELSE Append(f[n - 1], vs[n])
    BY DEF Filters
  <1>2. 0 \in 0..N /\ \A n \in 1..N : n \in 0..N /\ n # 0
    OBVIOUS
  <1> QED BY <1>1, <1>2

LEMMA FilterExists ==
    ASSUME NEW vs, NEW N \in Nat
    PROVE  \E f : Filters(vs, N, f)
  <1> DEFINE G == {n \in 0..N : \E f : Filters(vs, n, f)}
  <1>1. 0 \in G
    <2>1. Filters(vs, 0, [n \in 0..0 |-> <<>>])
      BY DEF Filters
    <2> QED BY <2>1
  <1>2. ASSUME NEW n \in 1..N, n - 1 \in G PROVE n \in G
    <2>1. PICK f : Filters(vs, n - 1, f)
      BY <1>2
    <2> DEFINE last == IF vs[n] \in Skipped THEN f[n - 1] ELSE Append(f[n - 1], vs[n])
               g == [k \in 0..n |-> IF k < n THEN f[k] ELSE last]
    <2>2. \A k \in 0..(n - 1) :
             f[k] = IF k = 0 THEN <<>>
                    ELSE IF vs[k] \in Skipped THEN f[k - 1] ELSE Append(f[k - 1], vs[k])
      BY <2>1 DEF Filters
    <2>3. \A k \in 0..n :
             g[k] = IF k = 0 THEN <<>>
                    ELSE IF vs[k] \in Skipped THEN g[k - 1] ELSE Append(g[k - 1], vs[k])
      BY <2>2
    <2>4. Filters(vs, n, g)
      BY <2>3 DEF Filters
    <2> HIDE DEF g
    <2> QED BY <2>4
  <1> HIDE DEF G
  <1>3. 0..N \subseteq G
    BY <1>1, <1>2, UpTo
  <1> QED BY <1>3 DEF G

LEMMA KeptSolves ==
    ASSUME NEW S, NEW vs \in Seq(S)
    PROVE  \E f : Filters(vs, Len(vs), f) /\ Kept(vs) = f[Len(vs)]
  <1> DEFINE f == CHOOSE f : Filters(vs, Len(vs), f)
  <1>1. Kept(vs) = f[Len(vs)]
    BY DEF Kept, Filters, Skipped
  <1>2. Filters(vs, Len(vs), f)
    BY FilterExists
  <1> QED BY <1>1, <1>2

\* What is kept was in the list, and was not to be skipped.
LEMMA KeptType ==
    ASSUME NEW S, NEW vs \in Seq(S)
    PROVE  Kept(vs) \in Seq(S \ Skipped)
  <1>1. PICK f : Filters(vs, Len(vs), f) /\ Kept(vs) = f[Len(vs)]
    BY KeptSolves
  <1> DEFINE N == Len(vs)
             G == {n \in 0..N : f[n] \in Seq(S \ Skipped)}
  <1>2. f[0] = <<>> /\ \A n \in 1..N :
           f[n] = IF vs[n] \in Skipped THEN f[n - 1] ELSE Append(f[n - 1], vs[n])
    BY <1>1, FilterSteps
  <1>3. N \in Nat /\ \A n \in 1..N : vs[n] \in S
    OBVIOUS
  <1> HIDE DEF N
  <1>4. 0 \in G
    <2>1. f[0] \in Seq(S \ Skipped)
      BY <1>2
    <2>2. 0 \in 0..N
      BY <1>3
    <2> QED BY <2>1, <2>2
  <1>5. ASSUME NEW n \in 1..N, n - 1 \in G PROVE n \in G
    <2>1. f[n - 1] \in Seq(S \ Skipped) /\ n \in 0..N
      BY <1>3, <1>5
    <2>2. CASE vs[n] \in Skipped
      BY <1>2, <2>1, <2>2
    <2>3. CASE vs[n] \notin Skipped
      <3>1. vs[n] \in S \ Skipped /\ f[n] = Append(f[n - 1], vs[n])
        BY <1>2, <1>3, <2>3
      <3>2. Append(f[n - 1], vs[n]) \in Seq(S \ Skipped)
        BY <2>1, <3>1
      <3> QED BY <2>1, <3>1, <3>2
    <2> QED BY <2>2, <2>3
  <1> HIDE DEF G
  <1>6. 0..N \subseteq G
    BY <1>3, <1>4, <1>5, UpTo
  <1>7. f[N] \in Seq(S \ Skipped)
    BY <1>3, <1>6 DEF G
  <1> QED BY <1>1, <1>7 DEF N

\* A list with nothing to skip is kept as it is.
LEMMA KeptWhole ==
    ASSUME NEW S, NEW vs \in Seq(S), S \cap Skipped = {}
    PROVE  Kept(vs) = vs
  <1>1. PICK f : Filters(vs, Len(vs), f) /\ Kept(vs) = f[Len(vs)]
    BY KeptSolves
  <1> DEFINE N == Len(vs)
             Front(n) == [i \in 1..n |-> vs[i]]
             G == {n \in 0..N : f[n] = Front(n)}
  <1>2. f[0] = <<>> /\ \A n \in 1..N :
           f[n] = IF vs[n] \in Skipped THEN f[n - 1] ELSE Append(f[n - 1], vs[n])
    BY <1>1, FilterSteps
  <1>3. N \in Nat /\ (\A n \in 1..N : vs[n] \in S) /\ vs = Front(N)
    OBVIOUS
  <1>4. ASSUME NEW n \in 1..N PROVE Append(Front(n - 1), vs[n]) = Front(n)
    <2>1. Front(n - 1) \in Seq(S) /\ Len(Front(n - 1)) = n - 1
      OBVIOUS
    <2> QED BY <2>1
  <1>5. Front(0) = <<>>
    OBVIOUS
  <1> HIDE DEF N, Front
  <1>6. 0 \in G
    BY <1>2, <1>3, <1>5
  <1>7. ASSUME NEW n \in 1..N, n - 1 \in G PROVE n \in G
    <2>1. f[n - 1] = Front(n - 1) /\ n \in 0..N
      BY <1>3, <1>7
    <2>2. f[n] = Append(f[n - 1], vs[n])
      BY <1>2, <1>3
    <2> QED BY <1>4, <2>1, <2>2
  <1> HIDE DEF G
  <1>8. 0..N \subseteq G
    BY <1>3, <1>6, <1>7, UpTo
  <1>9. f[N] = Front(N)
    BY <1>3, <1>8 DEF G
  <1> QED BY <1>1, <1>3, <1>9 DEF N

-----------------------------------------------------------------------------
(* What a save stores can be saved again                                   *)

\* A JSON value whose texts and numbers the constants can read and write.
Json(v) == /\ v \in Value
           /\ v.kind # "list" => v \in Scalar
           /\ v.kind = "text" => v.text \in DOMAIN Parts
           /\ v.kind = "num" => v.half \in DOMAIN TextOf

Item == {Null} \cup {Text(s) : s \in STRING}

\* What the page sends for a choice: nothing, a text, or a list of these.
Choice(v) == \/ v.kind \in {"null", "text"}
             \/ v.kind = "list" /\ v.items \in Seq(Item)

LEMMA NullFacts == Null \in Scalar /\ Null \in Value /\ Null.kind = "null" /\ Null.items = <<>>
  <1> DEFINE Mold(b, t, is) == [kind |-> "null", bool |-> b, half |-> 0, text |-> t, items |-> is]
  <1>1. ASSUME NEW b \in BOOLEAN, NEW t \in STRING
        PROVE  Mold(b, t, <<>>) \in Scalar /\ Mold(b, t, <<>>) \in Value
    <2>1. \A is \in {<<>>} : Mold(b, t, is) \in Scalar
      BY DEF Scalar
    <2>2. \A is \in Seq(Scalar) : Mold(b, t, is) \in Value
      BY DEF Value
    <2>3. <<>> \in Seq(Scalar) /\ <<>> \in {<<>>}
      OBVIOUS
    <2> QED BY <2>1, <2>2, <2>3
  <1>2. Null = Mold(FALSE, "", <<>>) /\ FALSE \in BOOLEAN
    BY Zenon DEF Null, Blank
  <1>3. Null.kind = "null" /\ Null.items = <<>>
    BY DEF Null, Blank
  <1>4. "" \in STRING
    BY LiteralAssumption
  <1> HIDE DEF Mold
  <1> QED BY <1>1, <1>2, <1>3, <1>4, Zenon

LEMMA TextFacts ==
    ASSUME NEW s \in STRING
    PROVE  /\ Text(s) \in Scalar /\ Text(s) \in Value
           /\ Text(s).kind = "text" /\ Text(s).text = s /\ Text(s).items = <<>>
  BY NullFacts DEF Null, Text, Scalar, Value

LEMMA NumFacts ==
    ASSUME NEW h \in Int
    PROVE  /\ Num(h) \in Scalar /\ Num(h) \in Value
           /\ Num(h).kind = "num" /\ Num(h).half = h
  BY NullFacts DEF Null, Num, Scalar, Value

LEMMA BoolFacts ==
    ASSUME NEW b \in BOOLEAN
    PROVE  Bool(b) \in Scalar /\ Bool(b) \in Value /\ Bool(b).kind = "bool"
  BY NullFacts DEF Null, Bool, Scalar, Value

LEMMA ListFacts ==
    ASSUME NEW vs \in Seq(Scalar)
    PROVE  List(vs) \in Value /\ List(vs).kind = "list" /\ List(vs).items = vs
  BY NullFacts DEF Null, List, Value

\* What a normalizer has once accepted it leaves as it is.
LEMMA BoolIsNormal ==
    ASSUME NEW raw, Json(raw), NEW v, v = NormalBool(raw), v # None
    PROVE  v \in Value /\ NormalBool(v) = v
  <1>1. CASE raw.kind = "bool"
    BY <1>1 DEF NormalBool, Json
  <1>2. CASE raw.kind = "text" /\ BoolOf[raw.text] # None
    <2>1. BoolOf[raw.text] \in BOOLEAN /\ v = Bool(BoolOf[raw.text])
      BY <1>2, ParsingAssumption DEF NormalBool, Json
    <2>2. v \in Value /\ v.kind = "bool"
      BY <2>1, BoolFacts
    <2> QED BY <2>2 DEF NormalBool
  <1> QED BY <1>1, <1>2 DEF NormalBool

LEMMA TruncWhole == \A n \in Int : Trunc(2 * n) = n
  BY DEF Trunc

LEMMA TruncType == \A h \in Int : Trunc(h) \in Int
  BY DEF Trunc

LEMMA IntIsNormal ==
    ASSUME NEW raw, Json(raw), NEW v, v = NormalInt(raw), v # None
    PROVE  v \in Value /\ v.kind = "num" /\ NormalInt(v) = v
  <1>1. ASSUME NEW n \in Int, v = Num(2 * n)
        PROVE  v \in Value /\ v.kind = "num" /\ NormalInt(v) = v
    <2>1. v \in Value /\ v.kind = "num" /\ v.half = 2 * n
      BY <1>1, NumFacts
    <2>2. NormalInt(v) = Num(2 * Trunc(2 * n))
      BY <2>1 DEF NormalInt
    <2> QED BY <1>1, <2>1, <2>2, TruncWhole
  <1>2. CASE raw.kind = "num"
    <2>1. raw.half \in Int
      BY <1>2, ParsingAssumption DEF Json
    <2> QED BY <1>1, <1>2, <2>1, TruncType DEF NormalInt
  <1>3. CASE raw.kind = "text" /\ IntOf[raw.text] # None
    <2>1. IntOf[raw.text] \in Int
      BY <1>3, ParsingAssumption DEF Json
    <2> QED BY <1>1, <1>3, <2>1 DEF NormalInt
  <1> QED BY <1>2, <1>3 DEF NormalInt

LEMMA TextIsNormal ==
    ASSUME NEW raw, Json(raw), NEW v, v = NormalText(raw), v # None
    PROVE  v \in Value /\ NormalText(v) = v
  <1>1. ASSUME NEW s \in STRING \ {"", " "}, v = Text(s)
        PROVE  v \in Value /\ NormalText(v) = v
    <2>1. v \in Value /\ v.kind = "text" /\ v.text = s
      BY <1>1, TextFacts
    <2> QED BY <2>1 DEF NormalText
  <1>2. CASE raw.kind = "text"
    BY <1>2 DEF NormalText, Json
  <1>3. CASE raw.kind = "num"
    <2>1. TextOf[raw.half] \in STRING \ {"", " "}
      BY <1>3, ParsingAssumption DEF Json
    <2> QED BY <1>1, <1>3, <2>1 DEF NormalText
  <1>4. CASE raw.kind = "bool"
    <2>1. v \in {Text("true"), Text("false")}
      BY <1>4 DEF NormalText
    <2>2. "true" \in STRING \ {"", " "} /\ "false" \in STRING \ {"", " "}
      BY LiteralAssumption
    <2>3. CASE v = Text("true")
      BY <1>1, <2>2, <2>3
    <2>4. CASE v = Text("false")
      BY <1>1, <2>2, <2>4
    <2> QED BY <2>1, <2>3, <2>4
  <1> QED BY <1>2, <1>3, <1>4 DEF NormalText

LEMMA NotSkipped ==
    ASSUME NEW s \in STRING \ {""}
    PROVE  Text(s) \notin Skipped
  <1>1. "" \in STRING
    BY LiteralAssumption
  <1>2. \A x \in STRING : Text(x).kind = "text" /\ Text(x).text = x
    BY TextFacts
  <1>3. Text(s) # Text("")
    BY <1>1, <1>2
  <1>4. Text(s) # Null
    BY <1>2, NullFacts
  <1> QED BY <1>3, <1>4 DEF Skipped

LEMMA SeqFacts ==
    ASSUME NEW S, NEW q \in Seq(S)
    PROVE  /\ DOMAIN q = 1..Len(q) /\ Len(q) \in Nat
           /\ \A i \in 1..Len(q) : q[i] \in S
           /\ q # <<>> => 1 \in 1..Len(q)
  OBVIOUS

LEMMA IsSeq ==
    ASSUME NEW S, NEW n \in Nat, NEW q \in [1..n -> S]
    PROVE  q \in Seq(S) /\ Len(q) = n /\ DOMAIN q = 1..n
  OBVIOUS

\* The items that a value may contribute to a list.
Offers(raw, S) ==
    /\ raw.kind = "list" => raw.items \in Seq(S)
    /\ raw.kind = "text" => \A s \in STRING \ {""} : Text(s) \in S
    /\ raw.kind \in {"bool", "num"} => raw \in S

\* The items of a list that is accepted are those of the list that was sent, or
\* the parts of a text, or what was sent for one.
LEMMA ListItems ==
    ASSUME NEW S, NEW raw, Json(raw), Offers(raw, S), NEW v, v = NormalList(raw), v # None
    PROVE  \E is \in Seq(S \ Skipped) : is # <<>> /\ v = List(is)
  <1>1. CASE raw.kind = "list"
    <2>1. Kept(raw.items) \in Seq(S \ Skipped)
      BY <1>1, KeptType DEF Offers
    <2> QED BY <1>1, <2>1 DEF NormalList
  <1>2. CASE raw.kind = "text"
    <2> DEFINE ps == Parts[raw.text]
               is == [i \in DOMAIN ps |-> Text(ps[i])]
    <2>1. ps \in Seq(STRING \ {""})
      BY <1>2, ParsingAssumption DEF Json
    <2>2. v = IF is = <<>> THEN None ELSE List(is)
      BY <1>2 DEF NormalList
    <2> HIDE DEF ps
    <2>3. /\ DOMAIN ps = 1..Len(ps) /\ Len(ps) \in Nat
          /\ \A i \in 1..Len(ps) : ps[i] \in STRING \ {""}
      BY <2>1, SeqFacts
    <2>4. \A i \in 1..Len(ps) : Text(ps[i]) \in S \ Skipped
      BY <1>2, <2>3, NotSkipped DEF Offers
    <2>5. is \in Seq(S \ Skipped)
      BY <2>3, <2>4, IsSeq
    <2> HIDE DEF is
    <2> QED BY <2>2, <2>5
  <1>3. CASE raw.kind \in {"bool", "num"}
    <2>1. raw \in S \ Skipped
      BY <1>3, TextFacts, NullFacts, LiteralAssumption DEF Skipped, Text, Null, Blank, Offers
    <2>2. \A x \in S \ Skipped : <<x>> \in Seq(S \ Skipped) /\ <<x>> # <<>>
      OBVIOUS
    <2>3. v = List(<<raw>>)
      BY <1>3, <2>1, <2>2 DEF NormalList
    <2> QED BY <2>1, <2>2, <2>3
  <1>4. raw.kind # "null"
    BY DEF NormalList
  <1> QED BY <1>1, <1>2, <1>3, <1>4 DEF Json, Value

LEMMA ListIsNormal ==
    ASSUME NEW raw, Json(raw), NEW v, v = NormalList(raw), v # None
    PROVE  v \in Value /\ NormalList(v) = v
  <1>1. PICK is \in Seq(Scalar \ Skipped) : is # <<>> /\ v = List(is)
    <2>1. raw.kind = "list" => raw.items \in Seq(Scalar)
      BY DEF Json, Value
    <2>2. \A s \in STRING \ {""} : Text(s) \in Scalar
      BY TextFacts
    <2>3. raw.kind \in {"bool", "num"} => raw \in Scalar
      BY DEF Json
    <2>4. Offers(raw, Scalar)
      BY <2>1, <2>2, <2>3 DEF Offers
    <2> QED BY <2>4, ListItems
  <1>2. v \in Value /\ v.kind = "list" /\ v.items = is
    <2>1. is \in Seq(Scalar)
      OBVIOUS
    <2> QED BY <1>1, <2>1, ListFacts
  <1>3. Kept(is) = is
    BY KeptWhole
  <1> QED BY <1>1, <1>2, <1>3 DEF NormalList

\* A choice that is accepted is one of texts, and not an empty one.
LEMMA ChoiceOfTexts ==
    ASSUME NEW raw, Json(raw), Choice(raw), NEW v, v = NormalList(raw), v # None
    PROVE  (\A x \in Items(v) : x.kind = "text" => x = Text(x.text)) /\ StrArray(v) # {}
  <1>1. PICK is \in Seq(Item \ Skipped) : is # <<>> /\ v = List(is)
    <2>1. raw.kind = "list" => raw.items \in Seq(Item)
      BY DEF Choice
    <2>2. \A s \in STRING \ {""} : Text(s) \in Item
      BY DEF Item
    <2>3. raw.kind \notin {"bool", "num"}
      BY DEF Choice
    <2>4. Offers(raw, Item)
      BY <2>1, <2>2, <2>3 DEF Offers
    <2> QED BY <2>4, ListItems
  <1>2. \A x \in Item \ Skipped : x.kind = "text" /\ x = Text(x.text) /\ x \in Scalar
    BY TextFacts DEF Skipped, Item
  <1>3. v.items = is
    <2>1. is \in Seq(Scalar)
      BY <1>2
    <2> QED BY <1>1, <2>1, ListFacts
  <1>4. Items(v) = {is[i] : i \in 1..Len(is)} /\ \A i \in 1..Len(is) : is[i] \in Item \ Skipped
    BY <1>3 DEF Items
  <1>5. 1 \in 1..Len(is)
    BY <1>1
  <1>6. \A x \in Items(v) : x.kind = "text" /\ x = Text(x.text)
    BY <1>2, <1>4
  <1>7. is[1] \in Items(v)
    BY <1>4, <1>5
  <1> QED BY <1>6, <1>7 DEF StrArray

LEMMA ValueIsNormal ==
    ASSUME NEW kind \in {"bool", "int", "string"}, NEW op, NEW raw, Json(raw),
           NEW v, v = NormalizeValue(kind, op, raw), v # None
    PROVE  v \in Value /\ NormalizeValue(kind, op, v) = v
  <1>1. CASE kind = "bool"
    BY <1>1, BoolIsNormal DEF NormalizeValue
  <1>2. CASE kind = "int"
    BY <1>2, IntIsNormal DEF NormalizeValue
  <1>3. CASE kind = "string" /\ op \in {"in", "not_in"}
    BY <1>3, ListIsNormal DEF NormalizeValue
  <1>4. CASE kind = "string" /\ op \notin {"in", "not_in"}
    BY <1>4, TextIsNormal DEF NormalizeValue
  <1> QED BY <1>1, <1>2, <1>3, <1>4

\* A condition that a save may hold, and one that the page writes.
Sent(c)   == c \in Condition /\ Json(c.value) /\ Json(c.value_end)
Picked(c) == c.operator \in {"in", "not_in"} => Choice(c.value)

\* What the validator requires, and what it makes of the second value.
Accepted(c, v, e) ==
    /\ c.target \in Targets
    /\ c.operator \in ValidFor[TargetKind[c.target]]
    /\ v # None /\ v = NormalizeValue(TargetKind[c.target], c.operator, c.value)
    /\ c.operator # "between" => e = Null
    /\ c.operator = "between" =>
          /\ c.value_end # Null
          /\ e # None /\ e = NormalizeValue(TargetKind[c.target], c.operator, c.value_end)
    /\ ~(c.operator = "regex" /\ v.text \in Malformed)

LEMMA AcceptedIf ==
    ASSUME NEW c, Validated(c) # None
    PROVE  \E v, e : Accepted(c, v, e) /\ Validated(c) = [c EXCEPT !.value = v, !.value_end = e]
  <1> DEFINE kind == TargetKind[c.target]
             v == NormalizeValue(kind, c.operator, c.value)
             e == IF c.operator # "between" THEN Null
                  ELSE IF c.value_end = Null THEN None
                  ELSE NormalizeValue(kind, c.operator, c.value_end)
             Refused == \/ c.target \notin Targets
                        \/ c.operator \notin ValidFor[kind]
                        \/ v = None
                        \/ e = None
                        \/ c.operator = "regex" /\ v.text \in Malformed
  <1>1. Validated(c) = IF Refused THEN None ELSE [c EXCEPT !.value = v, !.value_end = e]
    BY DEF Validated
  <1>2. /\ c.operator # "between" => e = Null
        /\ c.operator = "between" /\ e # None => /\ c.value_end # Null
                                               /\ e = NormalizeValue(kind, c.operator, c.value_end)
    OBVIOUS
  <1>3. v = NormalizeValue(TargetKind[c.target], c.operator, c.value)
    OBVIOUS
  <1> HIDE DEF v, e
  <1>4. ~Refused => Accepted(c, v, e)
    BY <1>2, <1>3 DEF Accepted
  <1> HIDE DEF Refused
  <1> QED BY <1>1, <1>4

LEMMA NullIsSome == Null # None
  BY NullFacts, NoneAssumption

LEMMA AcceptedThen ==
    ASSUME NEW c, Accepted(c, c.value, c.value_end)
    PROVE  Validated(c) = [c EXCEPT !.value = c.value, !.value_end = c.value_end]
  <1> DEFINE kind == TargetKind[c.target]
             v == NormalizeValue(kind, c.operator, c.value)
             e == IF c.operator # "between" THEN Null
                  ELSE IF c.value_end = Null THEN None
                  ELSE NormalizeValue(kind, c.operator, c.value_end)
             Refused == \/ c.target \notin Targets
                        \/ c.operator \notin ValidFor[kind]
                        \/ v = None
                        \/ e = None
                        \/ c.operator = "regex" /\ v.text \in Malformed
  <1>1. v = c.value /\ e = c.value_end
    BY DEF Accepted
  <1>2. ~Refused
    BY <1>1, NullIsSome DEF Accepted
  <1>3. Validated(c) = IF Refused THEN None ELSE [c EXCEPT !.value = v, !.value_end = e]
    BY DEF Validated
  <1> HIDE DEF Refused, v, e
  <1> QED BY <1>1, <1>2, <1>3

LEMMA KindOf == \A t \in Targets : TargetKind[t] \in {"bool", "int", "string"}
  BY DEF Targets, TargetKind

LEMMA Between ==
    ASSUME NEW t \in Targets, "between" \in ValidFor[TargetKind[t]]
    PROVE  TargetKind[t] = "int"
  <1>1. "between" \notin ValidFor["bool"] /\ "between" \notin ValidFor["string"]
    BY DEF ValidFor
  <1> QED BY <1>1, KindOf

\* What was accepted is accepted again, and stays as it is.
LEMMA ConditionIsNormal ==
    ASSUME NEW c, Sent(c), Validated(c) # None
    PROVE  Validated(c) \in Condition /\ Validated(Validated(c)) = Validated(c)
  <1>1. PICK v, e : Accepted(c, v, e) /\ Validated(c) = [c EXCEPT !.value = v, !.value_end = e]
    BY AcceptedIf
  <1> DEFINE kind == TargetKind[c.target]
             d == [c EXCEPT !.value = v, !.value_end = e]
  <1>2. kind \in {"bool", "int", "string"}
    BY <1>1, KindOf DEF Accepted
  <1>3. v \in Value /\ NormalizeValue(kind, c.operator, v) = v
    BY <1>1, <1>2, ValueIsNormal DEF Accepted, Sent
  <1>4. Validated(c) = d
    BY <1>1
  <1>5. /\ e \in Value
        /\ c.operator = "between" => e # Null /\ NormalizeValue(kind, c.operator, e) = e
    <2>1. CASE c.operator # "between"
      BY <1>1, <2>1, NullFacts DEF Accepted
    <2>2. CASE c.operator = "between"
      <3>1. kind = "int"
        BY <1>1, <2>2, Between DEF Accepted
      <3>2. e # None /\ e = NormalInt(c.value_end) /\ Json(c.value_end)
        BY <1>1, <2>2, <3>1 DEF Accepted, NormalizeValue, Sent
      <3>3. e \in Value /\ e.kind = "num" /\ NormalInt(e) = e
        BY <3>2, IntIsNormal
      <3> QED BY <3>1, <3>3, NullFacts DEF NormalizeValue
    <2> QED BY <2>1, <2>2
  <1>6. /\ d \in Condition /\ d.target = c.target /\ d.operator = c.operator
        /\ d.value = v /\ d.value_end = e
    BY <1>3, <1>5 DEF Sent, Condition
  <1>7. e # None /\ v # None
    BY <1>3, <1>5, NoneAssumption
  <1> HIDE DEF d
  <1>8. Accepted(d, d.value, d.value_end)
    BY <1>1, <1>3, <1>5, <1>6, <1>7 DEF Accepted
  <1>9. [d EXCEPT !.value = d.value, !.value_end = d.value_end] = d
    BY <1>6 DEF Condition
  <1>10. Validated(d) = d
    BY <1>8, <1>9, AcceptedThen
  <1> QED BY <1>4, <1>6, <1>10

\* And the evaluators know what to do with it.
LEMMA ConditionIsWellFormed ==
    ASSUME NEW c, Sent(c), Picked(c), Validated(c) # None
    PROVE  WellFormedCondition(Validated(c))
  <1>1. PICK v, e : Accepted(c, v, e) /\ Validated(c) = [c EXCEPT !.value = v, !.value_end = e]
    BY AcceptedIf
  <1> DEFINE d == [c EXCEPT !.value = v, !.value_end = e]
  <1>2. d.target = c.target /\ d.operator = c.operator /\ d.value = v
    BY DEF Sent, Condition
  <1>3. d \in Condition
    BY <1>1, ConditionIsNormal
  <1> HIDE DEF d
  <1>4. d.value.text \in STRING /\ d.value.half \in Int
    BY <1>3 DEF Condition, Value
  <1>5. d.target \in Targets /\ d.operator \in ValidFor[TargetKind[d.target]]
    BY <1>1, <1>2 DEF Accepted
  <1>6. ASSUME d.operator \in {"in", "not_in"}
        PROVE  (\A x \in Items(v) : x.kind = "text" => x = Text(x.text)) /\ StrArray(v) # {}
    <2>1. TargetKind[c.target] = "string"
      BY <1>2, <1>5, <1>6, KindOf DEF ValidFor
    <2>2. v = NormalList(c.value) /\ v # None /\ Json(c.value) /\ Choice(c.value)
      BY <1>1, <1>2, <1>6, <2>1 DEF Accepted, NormalizeValue, Sent, Picked
    <2> QED BY <2>2, ChoiceOfTexts
  <1>7. WellFormedCondition(d)
    BY <1>2, <1>4, <1>5, <1>6 DEF WellFormedCondition
  <1> QED BY <1>1, <1>7 DEF d

LEMMA ModeStays ==
    ASSUME NEW k \in DOMAIN ModeOf
    PROVE  ModeOf[k] \in Modes /\ ModeOf[k] \in DOMAIN ModeOf /\ ModeOf[ModeOf[k]] = ModeOf[k]
  BY DEF ModeOf, Modes

SentGroup(g)   == g \in Seq(Condition) /\ \A k \in DOMAIN g : Sent(g[k])
PickedGroup(g) == \A k \in DOMAIN g : Picked(g[k])

\* What a group that is stored is like.
StoredGroup(h) ==
    /\ h \in Seq(Condition) /\ h # <<>> /\ ~(Len(h) > MaxConditions)
    /\ \A k \in DOMAIN h : Validated(h[k]) = h[k]

LEMMA GroupIsStored ==
    ASSUME NEW g, SentGroup(g), ~GroupRefused(g)
    PROVE  /\ StoredGroup(ParseGroup(g))
           /\ PickedGroup(g) => \A k \in DOMAIN ParseGroup(g) : WellFormedCondition(ParseGroup(g)[k])
  <1> DEFINE h == ParseGroup(g)
  <1>1. /\ DOMAIN g = 1..Len(g) /\ Len(g) \in Nat
        /\ g # <<>> /\ ~(Len(g) > MaxConditions)
        /\ \A k \in 1..Len(g) : g[k] \in Condition /\ Sent(g[k]) /\ Validated(g[k]) # None
    BY SeqFacts DEF SentGroup, GroupRefused
  <1>2. h = [k \in 1..Len(g) |-> Validated(g[k])]
    BY <1>1 DEF ParseGroup
  <1>3. \A k \in 1..Len(g) : /\ Validated(g[k]) \in Condition
                             /\ Validated(Validated(g[k])) = Validated(g[k])
    BY <1>1, ConditionIsNormal
  <1> HIDE DEF h
  <1>4. h \in [1..Len(g) -> Condition]
    BY <1>2, <1>3
  <1>5. h \in Seq(Condition) /\ Len(h) = Len(g) /\ DOMAIN h = 1..Len(g)
    BY <1>1, <1>4, IsSeq
  <1>6. h # <<>>
    <2>1. Len(g) # 0
      BY <1>1 DEF SentGroup
    <2> QED BY <1>5, <2>1
  <1>7. \A k \in DOMAIN h : Validated(h[k]) = h[k]
    BY <1>2, <1>3, <1>5
  <1>8. ASSUME PickedGroup(g), NEW k \in DOMAIN h PROVE WellFormedCondition(h[k])
    BY <1>1, <1>2, <1>5, <1>8, ConditionIsWellFormed DEF PickedGroup
  <1>9. StoredGroup(h)
    BY <1>1, <1>5, <1>6, <1>7 DEF StoredGroup
  <1> QED BY <1>8, <1>9 DEF h

\* A stored group is accepted as it is.
LEMMA StoredGroupStays ==
    ASSUME NEW h, StoredGroup(h)
    PROVE  ~GroupRefused(h) /\ ParseGroup(h) = h
  <1>1. /\ DOMAIN h = 1..Len(h) /\ Len(h) \in Nat
        /\ \A k \in 1..Len(h) : h[k] \in Condition /\ Validated(h[k]) = h[k]
    BY SeqFacts DEF StoredGroup
  <1>2. ParseGroup(h) = h
    <2>1. ParseGroup(h) = [k \in 1..Len(h) |-> h[k]]
      BY <1>1 DEF ParseGroup
    <2>2. h = [k \in 1..Len(h) |-> h[k]]
      BY DEF StoredGroup
    <2> QED BY <2>1, <2>2
  <1>3. \A k \in DOMAIN h : Validated(h[k]) # None
    BY <1>1, NoneAssumption
  <1>4. h # <<>> /\ ~(Len(h) > MaxConditions)
    BY DEF StoredGroup
  <1> QED BY <1>2, <1>3, <1>4 DEF GroupRefused

\* A body as the page posts it: conditions with the values its form has.
SentBody(b)   == /\ b.any \in BOOLEAN
                 /\ DOMAIN b.groups = 1..Len(b.groups) /\ Len(b.groups) \in Nat
                 /\ \A i \in DOMAIN b.groups : SentGroup(b.groups[i])
PickedBody(b) == \A i \in DOMAIN b.groups : PickedGroup(b.groups[i])

TreeRefused(b) ==
    \/ b.mode \notin DOMAIN ModeOf
    \/ ~b.any /\ (\/ b.groups = <<>>
                  \/ Len(b.groups) > MaxGroups
                  \/ \E i \in DOMAIN b.groups : GroupRefused(b.groups[i]))

TreeOf(any, mode, gs) == [any |-> any, mode |-> mode, groups |-> gs]

LEMMA TreeFacts ==
    ASSUME NEW any, NEW mode, NEW gs
    PROVE  /\ TreeOf(any, mode, gs).any = any
           /\ TreeOf(any, mode, gs).mode = mode
           /\ TreeOf(any, mode, gs).groups = gs
  BY Zenon DEF TreeOf

LEMMA TreeParsed ==
    ASSUME NEW b
    PROVE  ParseRuleTree(b) =
              IF TreeRefused(b) THEN None
              ELSE TreeOf(b.any, ModeOf[b.mode],
                          IF b.any THEN <<>>
                          ELSE [i \in DOMAIN b.groups |-> ParseGroup(b.groups[i])])
  BY DEF ParseRuleTree, TreeRefused, TreeOf

\* For every body that the page can post, whatever the texts read as, the rule
\* that the validator stores is accepted as it is when the page sends it back.
THEOREM StoredIsAcceptedAgain ==
    ASSUME NEW b, SentBody(b), NEW t, t = ParseRuleTree(b), t # None
    PROVE  ParseRuleTree(t) = t
  <1> DEFINE mode == ModeOf[b.mode]
             gs == [i \in DOMAIN b.groups |-> ParseGroup(b.groups[i])]
  <1>1. ~TreeRefused(b)
    BY TreeParsed
  <1>2. mode \in DOMAIN ModeOf /\ ModeOf[mode] = mode
    BY <1>1, ModeStays DEF TreeRefused
  <1>3. CASE b.any
    <2>1. t = TreeOf(b.any, mode, <<>>)
      BY <1>1, <1>3, TreeParsed
    <2>2. t.any = b.any /\ t.mode = mode
      BY <2>1, TreeFacts
    <2> HIDE DEF mode
    <2>3. ~TreeRefused(t)
      BY <1>2, <1>3, <2>2, Zenon DEF TreeRefused
    <2>4. ParseRuleTree(t) = TreeOf(t.any, ModeOf[t.mode], <<>>)
      <3>1. t.any
        BY <1>3, <2>2, Zenon
      <3> QED BY <2>3, <3>1, TreeParsed
    <2> QED BY <1>2, <2>1, <2>2, <2>4
  <1>4. CASE ~b.any
    <2>1. t = TreeOf(b.any, mode, gs)
      BY <1>1, <1>4, TreeParsed
    <2>2. t.any = b.any /\ t.mode = mode /\ t.groups = gs
      BY <2>1, TreeFacts
    <2>3. ~t.any
      BY <1>4, <2>2, Zenon
    <2>4. /\ b.groups # <<>> /\ ~(Len(b.groups) > MaxGroups)
          /\ \A i \in DOMAIN b.groups : SentGroup(b.groups[i]) /\ ~GroupRefused(b.groups[i])
      BY <1>1, <1>4 DEF TreeRefused, SentBody
    <2>5. DOMAIN b.groups = 1..Len(b.groups) /\ Len(b.groups) \in Nat
      BY DEF SentBody
    <2>6. \A i \in DOMAIN b.groups : ~GroupRefused(gs[i]) /\ ParseGroup(gs[i]) = gs[i]
      BY <2>4, GroupIsStored, StoredGroupStays
    <2>7. DOMAIN gs = DOMAIN b.groups /\ gs = [i \in DOMAIN b.groups |-> gs[i]]
      OBVIOUS
    <2> HIDE DEF gs, mode
    <2>8. Len(gs) = Len(b.groups) /\ gs # <<>>
      BY <2>4, <2>5, <2>7
    <2>9. ~TreeRefused(t)
      BY <1>2, <2>2, <2>4, <2>6, <2>7, <2>8 DEF TreeRefused
    <2>10. [i \in DOMAIN t.groups |-> ParseGroup(t.groups[i])] = gs
      BY <2>2, <2>6, <2>7
    <2>11. ParseRuleTree(t) = TreeOf(t.any, ModeOf[t.mode], gs)
      BY <2>3, <2>9, <2>10, TreeParsed
    <2> QED BY <1>2, <2>1, <2>2, <2>11
  <1> QED BY <1>3, <1>4 DEF SentBody

\* For every body that the page can post, with texts where texts are chosen
\* from, what the validator stores is a rule that both evaluators understand.
THEOREM StoredIsWellFormed ==
    ASSUME NEW b, SentBody(b), PickedBody(b), NEW t, t = ParseRuleTree(b), t # None
    PROVE  WellFormed(t)
  <1> DEFINE mode == ModeOf[b.mode]
             gs == IF b.any THEN <<>> ELSE [i \in DOMAIN b.groups |-> ParseGroup(b.groups[i])]
  <1>1. ~TreeRefused(b) /\ t = TreeOf(b.any, mode, gs)
    BY TreeParsed
  <1>2. t.any = b.any /\ t.mode = mode /\ t.groups = gs
    BY <1>1, TreeFacts
  <1>3. mode \in Modes
    BY <1>1, ModeStays DEF TreeRefused
  <1>4. ASSUME NEW i \in DOMAIN gs, NEW k \in DOMAIN gs[i] PROVE WellFormedCondition(gs[i][k])
    <2>1. ~b.any
      BY <1>4
    <2>2. i \in DOMAIN b.groups /\ gs[i] = ParseGroup(b.groups[i])
      BY <2>1
    <2>3. SentGroup(b.groups[i]) /\ PickedGroup(b.groups[i]) /\ ~GroupRefused(b.groups[i])
      BY <1>1, <2>1, <2>2 DEF SentBody, PickedBody, TreeRefused
    <2> HIDE DEF gs
    <2> QED BY <1>4, <2>2, <2>3, GroupIsStored
  <1>5. t.any \in BOOLEAN
    BY <1>2, Zenon DEF SentBody
  <1> HIDE DEF gs, mode
  <1> QED BY <1>2, <1>3, <1>4, <1>5 DEF WellFormed

LEMMA TextsAreRead == \A s \in Texts : s \in DOMAIN Parts /\ s \in STRING
  BY InstanceAssumption, ParsingAssumption

LEMMA ListedAreTexts == \A v \in Listed : v \in Item /\ v \in Scalar /\ v.kind \in {"null", "text"}
  <1>1. {"", "JP", "US"} \subseteq Texts
    BY DEF Texts
  <1>2. \A s \in {"", "JP", "US"} : Text(s) \in Item /\ Text(s) \in Scalar /\ Text(s).kind = "text"
    BY <1>1, TextsAreRead, TextFacts DEF Item
  <1>3. Null \in Item /\ Null \in Scalar /\ Null.kind = "null"
    BY NullFacts DEF Item
  <1> QED BY <1>2, <1>3 DEF Listed

\* What the form of the page has for a value.
LEMMA ValuesAreSent ==
    ASSUME NEW v \in Values
    PROVE  Json(v) /\ (v.kind \in {"bool", "num"} \/ Choice(v))
  <1>1. CASE v = Null
    BY <1>1, NullFacts DEF Json, Choice
  <1>2. CASE v \in {Bool(TRUE), Bool(FALSE)}
    <2>1. PICK b \in BOOLEAN : v = Bool(b)
      BY <1>2
    <2>2. v \in Value /\ v.kind = "bool" /\ v \in Scalar
      BY <2>1, BoolFacts
    <2> QED BY <2>2 DEF Json
  <1>3. CASE v \in {Num(-1), Num(4), Num(5)}
    <2>1. PICK h \in {-1, 4, 5} : h \in Int /\ v = Num(h)
      BY <1>3
    <2>2. v \in Value /\ v.kind = "num" /\ v.half = h /\ v \in Scalar
      BY <2>1, NumFacts
    <2>3. h \in DOMAIN TextOf
      BY InstanceAssumption
    <2> QED BY <2>2, <2>3 DEF Json
  <1>4. CASE v \in {Text(s) : s \in Texts}
    <2>1. PICK s \in Texts : v = Text(s)
      BY <1>4
    <2> QED BY <2>1, TextsAreRead, TextFacts DEF Json, Choice
  <1>5. ASSUME NEW vs \in Seq(Item \cap Scalar), v = List(vs)
        PROVE  Json(v) /\ Choice(v)
    <2>1. vs \in Seq(Item) /\ vs \in Seq(Scalar)
      OBVIOUS
    <2>2. v \in Value /\ v.kind = "list" /\ v.items = vs
      BY <1>5, <2>1, ListFacts
    <2> QED BY <2>1, <2>2 DEF Json, Choice
  <1>6. CASE v \in {List(<<x>>) : x \in Listed}
    <2>1. PICK x \in Listed : v = List(<<x>>)
      BY <1>6
    <2>2. <<x>> \in Seq(Item \cap Scalar)
      BY ListedAreTexts
    <2> QED BY <1>5, <2>1, <2>2
  <1>7. CASE v \in {List(<<x, Text("JP")>>) : x \in Listed}
    <2>1. PICK x \in Listed : v = List(<<x, Text("JP")>>)
      BY <1>7
    <2>2. Text("JP") \in Listed
      BY DEF Listed
    <2>3. \A y \in Item \cap Scalar : <<x, y>> \in Seq(Item \cap Scalar)
      BY ListedAreTexts
    <2>4. <<x, Text("JP")>> \in Seq(Item \cap Scalar)
      BY <2>2, <2>3, ListedAreTexts
    <2> QED BY <1>5, <2>1, <2>4
  <1> QED BY <1>1, <1>2, <1>3, <1>4, <1>6, <1>7 DEF Values

Posts == {c \in Condition : Sent(c) /\ Picked(c)}

LEMMA SingleIsSent == Single \subseteq Posts
  <1> SUFFICES ASSUME NEW c \in Single PROVE c \in Posts
    OBVIOUS
  <1>1. /\ c.target \in Targets /\ c.operator \in Operators
        /\ c.value \in Values /\ c.value_end \in Values
        /\ c.operator \in {"in", "not_in"} /\ c.value.kind \in {"bool", "num"} => c.value \in Listed
    BY DEF Single, Values
  <1>2. Json(c.value) /\ Json(c.value_end)
    BY <1>1, ValuesAreSent
  <1>3. Picked(c)
    BY <1>1, ValuesAreSent, ListedAreTexts DEF Picked
  <1>4. c.target \in STRING /\ c.operator \in STRING
    BY <1>1, LiteralAssumption
  <1>5. c \in Condition
    BY <1>2, <1>4 DEF Single, Condition, Json
  <1> QED BY <1>2, <1>3, <1>5 DEF Posts, Sent

LEMMA PartIsSent == Part \subseteq Posts
  <1> DEFINE Cond(t, o, v, e) == [target |-> t, operator |-> o, value |-> v, value_end |-> e]
  <1>1. ASSUME NEW t \in Targets, NEW o \in Operators, NEW v \in Values, NEW e \in {Null, Num(4)},
               o \in {"in", "not_in"} => v.kind = "text"
        PROVE  Cond(t, o, v, e) \in Posts
    <2>1. Cond(t, o, v, e) \in Single
      BY <1>1 DEF Single
    <2> QED BY <2>1, SingleIsSent
  <1>2. /\ Num(4) \in Values /\ Text("US") \in Values /\ Text("JP") \in Values
        /\ Text("US,JP") \in Values
    BY DEF Values, Texts
  <1>3. Text("US").kind = "text" /\ Text("JP").kind = "text" /\ Text("US,JP").kind = "text"
    BY DEF Text, Blank
  <1>4. {"global_rank", "play_count", "country_code", "group_name"} \subseteq Targets
    BY DEF Targets, TargetKind
  <1>5. {"lte", "between", "neq", "not_in", "in"} \subseteq Operators
    BY DEF Operators, ValidFor
  <1>6. Part = {Cond("global_rank", "lte", Num(4), Null),
                Cond("play_count", "between", Num(4), Num(4)),
                Cond("country_code", "neq", Text("US"), Null),
                Cond("country_code", "not_in", Text("JP"), Null),
                Cond("group_name", "in", Text("US,JP"), Null)}
    BY DEF Part
  <1> HIDE DEF Cond
  <1>7. /\ Cond("global_rank", "lte", Num(4), Null) \in Posts
        /\ Cond("play_count", "between", Num(4), Num(4)) \in Posts
        /\ Cond("country_code", "neq", Text("US"), Null) \in Posts
    BY <1>1, <1>2, <1>4, <1>5
  <1>8. /\ Cond("country_code", "not_in", Text("JP"), Null) \in Posts
        /\ Cond("group_name", "in", Text("US,JP"), Null) \in Posts
    BY <1>1, <1>2, <1>3, <1>4, <1>5
  <1> QED BY <1>6, <1>7, <1>8

LEMMA GroupsArePosts == Groups \subseteq Seq(Seq(Posts))
  <1> DEFINE One   == {<<<<c>>>> : c \in Single}
             Two   == {<<<<c, d>>>> : c \in Part, d \in Part}
             Apart == {<<<<c>>, <<d>>>> : c \in Part, d \in Part}
             Long  == {<<<<c, c, c>>>> : c \in Part}
             Many  == {<<<<c>>, <<c>>, <<c>>>> : c \in Part}
  <1>1. \A c, d \in Posts : /\ <<c>> \in Seq(Posts) /\ <<c, d>> \in Seq(Posts)
                            /\ <<c, c, c>> \in Seq(Posts)
    OBVIOUS
  <1>2. \A g, h \in Seq(Posts) : /\ <<g>> \in Seq(Seq(Posts)) /\ <<g, h>> \in Seq(Seq(Posts))
                                 /\ <<g, h, g>> \in Seq(Seq(Posts))
    OBVIOUS
  <1>3. One \subseteq Seq(Seq(Posts))
    <2>1. \A c \in Single : <<<<c>>>> \in Seq(Seq(Posts))
      BY <1>1, <1>2, SingleIsSent
    <2> QED BY <2>1
  <1>4. \A c, d \in Part : /\ <<<<c, d>>>> \in Seq(Seq(Posts)) /\ <<<<c>>, <<d>>>> \in Seq(Seq(Posts))
                           /\ <<<<c, c, c>>>> \in Seq(Seq(Posts))
                           /\ <<<<c>>, <<c>>, <<c>>>> \in Seq(Seq(Posts))
    BY <1>1, <1>2, PartIsSent
  <1>5. Long \subseteq Seq(Seq(Posts)) /\ Many \subseteq Seq(Seq(Posts))
    BY <1>4
  <1>6. ASSUME NEW gs \in Two PROVE gs \in Seq(Seq(Posts))
    <2>1. PICK c \in Part, d \in Part : gs = <<<<c, d>>>>
      OBVIOUS
    <2> QED BY <1>4, <2>1
  <1>7. ASSUME NEW gs \in Apart PROVE gs \in Seq(Seq(Posts))
    <2>1. PICK c \in Part, d \in Part : gs = <<<<c>>, <<d>>>>
      OBVIOUS
    <2> QED BY <1>4, <2>1
  <1>8. <<>> \in Seq(Seq(Posts)) /\ <<<<>>>> \in Seq(Seq(Posts))
    OBVIOUS
  <1>9. Groups = {<<>>, <<<<>>>>} \cup One \cup Two \cup Apart \cup Long \cup Many
    BY DEF Groups
  <1> HIDE DEF One, Two, Apart, Long, Many
  <1> QED BY <1>3, <1>5, <1>6, <1>7, <1>8, <1>9

LEMMA BodiesAreSent ==
    ASSUME NEW b \in Bodies
    PROVE  SentBody(b) /\ PickedBody(b)
  <1>1. b.any \in BOOLEAN /\ b.groups \in Seq(Seq(Posts))
    <2>1. CASE b \in {Body(gs) : gs \in Groups}
      <3>1. PICK gs \in Groups : b = Body(gs)
        BY <2>1
      <3>2. b.any = FALSE /\ b.groups = gs
        BY <3>1 DEF Body
      <3>3. b.any \in BOOLEAN
        BY <3>2, Zenon
      <3> QED BY <3>2, <3>3, GroupsArePosts
    <2>2. CASE b \in {Posted(a, m, c) : a \in BOOLEAN, m \in {"taiko", "ctb", "drums"}, c \in Part}
      <3>1. PICK a \in BOOLEAN, m \in {"taiko", "ctb", "drums"}, c \in Part : b = Posted(a, m, c)
        BY <2>2
      <3>2. b.any = a /\ b.groups = <<<<c>>>>
        BY <3>1, Zenon DEF Posted
      <3>3. b.any \in BOOLEAN
        BY <3>2, Zenon
      <3>4. \A x \in Posts : <<<<x>>>> \in Seq(Seq(Posts))
        OBVIOUS
      <3> QED BY <3>2, <3>3, <3>4, PartIsSent
    <2> QED BY <2>1, <2>2 DEF Bodies
  <1>2. /\ DOMAIN b.groups = 1..Len(b.groups) /\ Len(b.groups) \in Nat
        /\ \A i \in DOMAIN b.groups : b.groups[i] \in Seq(Posts)
    BY <1>1, SeqFacts
  <1>3. ASSUME NEW g \in Seq(Posts) PROVE SentGroup(g) /\ PickedGroup(g)
    <2>1. \A k \in DOMAIN g : g[k] \in Posts
      BY SeqFacts
    <2>2. g \in Seq(Condition)
      BY DEF Posts
    <2> QED BY <2>1, <2>2 DEF Posts, SentGroup, PickedGroup
  <1>4. SentBody(b)
    BY <1>1, <1>2, <1>3 DEF SentBody
  <1> QED BY <1>2, <1>3, <1>4 DEF PickedBody

-----------------------------------------------------------------------------
(* The run's invariants                                                    *)

\* The rule is the one that the posted body asks for, or still unconfigured.
StoredInv ==
    /\ SentBody(body) /\ PickedBody(body)
    /\ tree = Unconfigured \/ (tree = ParseRuleTree(body) /\ tree # None)

LEMMA StoredInvariant == Spec => []StoredInv
  <1>1. Init => StoredInv
    BY BodiesAreSent DEF Init, StoredInv
  <1>2. StoredInv /\ [Next]_vars => StoredInv'
    <2> SUFFICES ASSUME StoredInv, [Next]_vars PROVE StoredInv'
      OBVIOUS
    <2>1. body' = body
      BY DEF Next, Save, vars
    <2>2. SentBody(body)' /\ PickedBody(body)'
      BY <2>1 DEF StoredInv
    <2>3. tree' = tree \/ (tree' = ParseRuleTree(body) /\ tree' # None)
      BY DEF Next, Save, vars
    <2> QED BY <2>1, <2>2, <2>3 DEF StoredInv
  <1> QED BY <1>1, <1>2, PTL DEF Spec

LEMMA TreeIsWellFormed == StoredInv => WellFormed(tree)
  <1>1. CASE tree = Unconfigured
    <2>1. tree.mode = "osu" /\ tree.groups = <<>>
      BY <1>1 DEF Unconfigured
    <2>2. tree.any \in BOOLEAN
      BY <1>1, Zenon DEF Unconfigured
    <2> QED BY <2>1, <2>2 DEF WellFormed, Modes
  <1>2. CASE tree # Unconfigured
    BY <1>2, StoredIsWellFormed DEF StoredInv
  <1> QED BY <1>1, <1>2

\* What a save has stored is well formed, and is accepted as it is when it comes
\* back from the page, in every state.
THEOREM StoredRulesAreStable == Spec => []SaveIsStable
  <1>1. StoredInv => SaveIsStable
    BY TreeIsWellFormed, StoredIsAcceptedAgain DEF StoredInv, SaveIsStable
  <1> QED BY <1>1, StoredInvariant, PTL

\* Whatever a save has stored, player_sync and config_sync agree on whether the
\* player has the role.
THEOREM RulesMeanOneThing == Spec => []EvaluatorsAgree
  <1>1. RequestInv /\ StoredInv => EvaluatorsAgree
    BY EvaluatorsAlwaysAgree, TreeIsWellFormed DEF RequestInv, EvaluatorsAgree
  <1> QED BY <1>1, RequestInvariant, StoredInvariant, PTL

\* A save never stores the unconfigured rule, and what it stores grants nothing
\* to the player for data he lacks, or has lost, but for the lenient conditions;
\* counters without a row are zeros.
THEOREM RulesFailClosed == Spec => []FailsClosed
  <1>1. RequestInv /\ StoredInv => FailsClosed
    <2> SUFFICES ASSUME RequestInv, StoredInv PROVE FailsClosed
      OBVIOUS
    <2>1. WellFormed(tree) /\ Recorded(player) /\ \A q \in Players : Recorded(q)
      BY TreeIsWellFormed, PlayersAreRecorded DEF RequestInv
    <2>2. ParseRuleTree(body) # Unconfigured
      BY NeverUnconfigured DEF RequestInv
    <2>3. AsksForMissing(tree, player) =>
              ~Evaluate(tree, FactsOf(player, tree.mode)) /\ ~Selected(tree, player)
      BY <2>1, MissingDataGrantNothing DEF AsksForMissing
    <2>4. ASSUME ~LenientRule(tree), NEW q \in Players, LessKnown(q, player, tree.mode)
          PROVE  /\ Evaluate(tree, FactsOf(q, tree.mode)) => Evaluate(tree, FactsOf(player, tree.mode))
                 /\ Selected(tree, q) => Selected(tree, player)
      BY <2>1, <2>4, LostDataGrantNothing
    <2>5. ASSUME NEW q \in Players, ZeroRow(q, player, tree.mode)
          PROVE  /\ Evaluate(tree, FactsOf(q, tree.mode)) <=> Evaluate(tree, FactsOf(player, tree.mode))
                 /\ Selected(tree, q) <=> Selected(tree, player)
      BY <2>1, <2>5, NoRowIsZeros
    <2> QED BY <2>2, <2>3, <2>4, <2>5 DEF FailsClosed
  <1> QED BY <1>1, RequestInvariant, StoredInvariant, PTL
=============================================================================
