------------------------------ MODULE RuleEval ------------------------------
(***************************************************************************)
(* What a rule means, three times over: the validator that turns a save    *)
(* into a rule tree (src/services/rule_validator.rs), the evaluator that   *)
(* player_sync runs (src/services/condition_eval.rs), and the SQL that     *)
(* config_sync and the preview run (src/services/rule_sql.rs), with SQL's  *)
(* three truth values.                                                     *)
(*                                                                         *)
(* Of the targets that are treated alike one stands for all: is_supporter  *)
(* and has_badge for the booleans, badge_count for the counters of a       *)
(* profile, days_since_last_visit for the ages, play_count and global_rank *)
(* for the statistics of a mode, username and country_code for the texts,  *)
(* group_name for the lists.                                               *)
(*                                                                         *)
(* Texts are atoms; what parsing and matching make of them is given by     *)
(* constants.  Numbers and ages are counted in halves, so that fractions   *)
(* and partial days exist.                                                 *)
(***************************************************************************)
EXTENDS Integers, Sequences

CONSTANTS
    None,          \* NULL, Option::None, or a refused save
    BoolOf,        \* text -> what normalize_value reads as a boolean, or None
    IntOf,         \* text -> what it parses as an i64, or None
    Parts,         \* text -> its comma-separated parts
    TextOf,        \* halves -> the text of a JSON number
    Within,        \* <<s, a>>: the text s occurs in a
    Matches,       \* <<p, a>>: the pattern p matches a
    Malformed,     \* texts that do not compile as a pattern
    MaxGroups, MaxConditions

\* A text may read as a boolean, an integer, or parts, none of them empty; a
\* number is written as a text that is not blank.
ASSUME ParsingAssumption ==
    /\ DOMAIN Parts \subseteq STRING /\ DOMAIN BoolOf = DOMAIN Parts /\ DOMAIN IntOf = DOMAIN Parts
    /\ \A s \in DOMAIN Parts : /\ BoolOf[s] \in BOOLEAN \cup {None}
                               /\ IntOf[s] = None \/ IntOf[s] \in Int
                               /\ Parts[s] \in Seq(STRING \ {""})
    /\ \A h \in DOMAIN TextOf : h \in Int /\ TextOf[h] \in STRING \ {"", " "}

-----------------------------------------------------------------------------
(* JSON values                                                             *)

Blank == [kind |-> "null", bool |-> FALSE, half |-> 0, text |-> "", items |-> <<>>]
Null     == Blank
Bool(b)  == [Blank EXCEPT !.kind = "bool", !.bool = b]
Num(h)   == [Blank EXCEPT !.kind = "num", !.half = h]
Text(s)  == [Blank EXCEPT !.kind = "text", !.text = s]
List(vs) == [Blank EXCEPT !.kind = "list", !.items = vs]

Scalar == [kind : {"null", "bool", "num", "text"}, bool : BOOLEAN, half : Int, text : STRING,
           items : {<<>>}]
Value  == [kind : {"null", "bool", "num", "text", "list"}, bool : BOOLEAN, half : Int, text : STRING,
           items : Seq(Scalar)]

Condition == [target : STRING, operator : STRING, value : Value, value_end : Value]

ASSUME NoneAssumption ==
    /\ None \notin Int /\ None \notin BOOLEAN /\ None \notin STRING
    /\ None \notin Value /\ None \notin Condition

Items(v) == {v.items[i] : i \in DOMAIN v.items}

\* Towards zero (num_days, `f as i64`) and downwards (FLOOR).
Trunc(h) == IF h >= 0 THEN h \div 2 ELSE -((-h) \div 2)
Floor(h) == h \div 2

\* as_i64 of a number that has been normalized.
AsInt(v) == Floor(v.half)

-----------------------------------------------------------------------------
(* models/condition.rs                                                     *)

TargetKind == [is_supporter |-> "bool", has_badge |-> "bool",
               badge_count |-> "int", days_since_last_visit |-> "int",
               play_count |-> "int", global_rank |-> "int",
               username |-> "string", country_code |-> "string", group_name |-> "string"]
Targets == DOMAIN TargetKind

ValidFor == [bool   |-> {"eq"},
             int    |-> {"eq", "neq", "gt", "gte", "lt", "lte", "between"},
             string |-> {"eq", "neq", "contains", "regex", "in", "not_in"}]
Operators == ValidFor["bool"] \cup ValidFor["int"] \cup ValidFor["string"]

\* The literals of the code are strings: the provers have no rule that says so.
ASSUME LiteralAssumption == {"", " ", "true", "false"} \cup Targets \cup Operators \subseteq STRING

\* Mode::from_key; an absent or empty default_mode is Mode::default().
ModeOf == [key \in {"", "osu", "standard", "taiko", "fruits", "catch", "ctb", "mania"} |->
              CASE key \in {"", "osu", "standard"}    -> "osu"
                [] key \in {"fruits", "catch", "ctb"} -> "fruits"
                [] OTHER -> key]

-----------------------------------------------------------------------------
(* rule_validator.rs: None stands for a refusal                            *)

NormalBool(raw) ==
    CASE raw.kind = "bool" -> raw
      [] raw.kind = "text" /\ BoolOf[raw.text] # None -> Bool(BoolOf[raw.text])
      [] OTHER -> None

NormalInt(raw) ==
    CASE raw.kind = "num" -> Num(2 * Trunc(raw.half))
      [] raw.kind = "text" /\ IntOf[raw.text] # None -> Num(2 * IntOf[raw.text])
      [] OTHER -> None

\* Mutant: a list becomes the one item of a list.
NormalListWrapped(raw) == IF raw.kind = "null" THEN None ELSE List(<<raw>>)

\* Whatever is neither null nor the empty string stays in a list, texts or not.
Kept(vs) ==
    LET kept[n \in 0..Len(vs)] ==
            IF n = 0 THEN <<>>
            ELSE IF vs[n] \in {Null, Text("")} THEN kept[n - 1] ELSE Append(kept[n - 1], vs[n])
    IN  kept[Len(vs)]

NormalList(raw) ==
    LET items == CASE raw.kind = "list" -> Kept(raw.items)
                   [] raw.kind = "text" ->
                        [i \in DOMAIN Parts[raw.text] |-> Text(Parts[raw.text][i])]
                   [] raw.kind = "null" -> <<>>
                   [] OTHER -> <<raw>>
    IN IF items = <<>> THEN None ELSE List(items)

NormalText(raw) ==
    CASE raw.kind = "text" -> IF raw.text \in {"", " "} THEN None ELSE raw
      [] raw.kind = "num"  -> Text(TextOf[raw.half])
      [] raw.kind = "bool" -> Text(IF raw.bool THEN "true" ELSE "false")
      [] OTHER -> None

NormalizeValue(kind, op, raw) ==
    CASE kind = "bool" -> NormalBool(raw)
      [] kind = "int"  -> NormalInt(raw)
      [] kind = "string" /\ op \in {"in", "not_in"}    -> NormalList(raw)
      [] kind = "string" /\ op \notin {"in", "not_in"} -> NormalText(raw)

Validated(raw) ==
    LET kind == TargetKind[raw.target]
        op   == raw.operator
        v    == NormalizeValue(kind, op, raw.value)
        end  == IF op # "between" THEN Null
                ELSE IF raw.value_end = Null THEN None
                ELSE NormalizeValue(kind, op, raw.value_end)
    IN  IF \/ raw.target \notin Targets
           \/ op \notin ValidFor[kind]
           \/ v = None
           \/ end = None
           \/ op = "regex" /\ v.text \in Malformed
        THEN None
        ELSE [raw EXCEPT !.value = v, !.value_end = end]

ParseGroup(g) == [i \in DOMAIN g |-> Validated(g[i])]

GroupRefused(g) ==
    \/ g = <<>>
    \/ Len(g) > MaxConditions
    \/ \E i \in DOMAIN g : Validated(g[i]) = None

ParseRuleTree(body) ==
    IF \/ body.mode \notin DOMAIN ModeOf
       \/ ~body.any /\ (\/ body.groups = <<>>
                        \/ Len(body.groups) > MaxGroups
                        \/ \E i \in DOMAIN body.groups : GroupRefused(body.groups[i]))
    THEN None
    ELSE [any |-> body.any, mode |-> ModeOf[body.mode],
          groups |-> IF body.any THEN <<>>
                     ELSE [i \in DOMAIN body.groups |-> ParseGroup(body.groups[i])]]

-----------------------------------------------------------------------------
(* A linked player in the tables, and FACTS_SELECT                         *)

\* p.stats[m] is None for a mode without an osu_stats row.
FactsOf(p, m) ==
    [is_supporter |-> p.supporter, has_badge |-> p.badges > 0, badge_count |-> p.badges,
     last_visit |-> p.age, country_code |-> p.country, username |-> p.username,
     groups |-> p.groups,
     global_rank |-> IF p.stats[m] = None THEN None ELSE p.stats[m].rank,
     play_count |-> IF p.stats[m] = None THEN 0 ELSE p.stats[m].plays]

-----------------------------------------------------------------------------
(* condition_eval.rs                                                       *)

Compare(op, a, c) ==
    CASE op = "eq"  -> a = AsInt(c.value)
      [] op = "neq" -> a # AsInt(c.value)
      [] op = "gt"  -> a > AsInt(c.value)
      [] op = "gte" -> a >= AsInt(c.value)
      [] op = "lt"  -> a < AsInt(c.value)
      [] op = "lte" -> a <= AsInt(c.value)
      [] op = "between" -> a >= AsInt(c.value) /\ a <= AsInt(c.value_end)

\* Mutant: a missing number passes.
IntMatchOpen(c, a) == a = None \/ Compare(c.operator, a, c)

IntMatch(c, a) == a # None /\ Compare(c.operator, a, c)

BoolMatch(c, a) == c.value.bool = a

ListContains(v, a) == Text(a) \in Items(v)

StringMatch(c, a) ==
    IF a = None THEN c.operator = "neq"
    ELSE CASE c.operator = "eq"       -> a = c.value.text
           [] c.operator = "neq"      -> a # c.value.text
           [] c.operator = "contains" -> <<c.value.text, a>> \in Within
           [] c.operator = "regex"    -> <<c.value.text, a>> \in Matches
           [] c.operator = "in"       -> ListContains(c.value, a)
           [] c.operator = "not_in"   -> ~ListContains(c.value, a)

ListStringMatch(c, as) ==
    CASE c.operator = "eq"       -> c.value.text \in as
      [] c.operator = "neq"      -> c.value.text \notin as
      [] c.operator = "contains" -> \E a \in as : <<c.value.text, a>> \in Within
      [] c.operator = "regex"    -> \E a \in as : <<c.value.text, a>> \in Matches
      [] c.operator = "in"       -> \E a \in as : ListContains(c.value, a)
      [] c.operator = "not_in"   -> \A a \in as : ~ListContains(c.value, a)

EvaluateSingle(c, f) ==
    CASE c.target \in {"is_supporter", "has_badge"} -> BoolMatch(c, f[c.target])
      [] c.target = "days_since_last_visit" ->
            IntMatch(c, IF f.last_visit = None THEN None ELSE Trunc(f.last_visit))
      [] c.target \in {"badge_count", "play_count", "global_rank"} -> IntMatch(c, f[c.target])
      [] c.target \in {"username", "country_code"} -> StringMatch(c, f[c.target])
      [] c.target = "group_name" -> ListStringMatch(c, f.groups)

Evaluate(tree, f) ==
    \/ tree.any
    \/ \E i \in DOMAIN tree.groups :
          /\ tree.groups[i] # <<>>
          /\ \A k \in DOMAIN tree.groups[i] : EvaluateSingle(tree.groups[i][k], f)

-----------------------------------------------------------------------------
(* rule_sql.rs: a condition is TRUE, FALSE or None (NULL)                  *)

SqlAnd(S) == IF FALSE \in S THEN FALSE ELSE IF None \in S THEN None ELSE TRUE
SqlOr(S)  == IF TRUE \in S THEN TRUE ELSE IF None \in S THEN None ELSE FALSE

\* Mutant: no COALESCE around the columns of a LEFT JOIN.
CoalesceNot(x, y) == x

Coalesce(x, y) == IF x = None THEN y ELSE x
Column(p, m, c) == IF p.stats[m] = None THEN None ELSE p.stats[m][c]

TargetExpr(p, m, target) ==
    CASE target = "is_supporter"          -> p.supporter
      [] target = "has_badge"             -> p.badges > 0
      [] target = "badge_count"           -> p.badges
      [] target = "days_since_last_visit" -> IF p.age = None THEN None ELSE Floor(p.age)
      [] target = "play_count"            -> Coalesce(Column(p, m, "plays"), 0)
      [] target = "global_rank"           -> Column(p, m, "rank")
      [] target = "username"              -> p.username
      [] target = "country_code"          -> p.country

\* The texts of a list literal; whatever else it holds is dropped.
StrArray(v) == {x.text : x \in {x \in Items(v) : x.kind = "text"}}

Strict(x, result) == IF x = None THEN None ELSE result

BuildCondition(c, p, m) ==
    LET x    == TargetExpr(p, m, c.target)
        kind == TargetKind[c.target]
        op   == c.operator
    IN  CASE kind = "bool" -> x = c.value.bool
          [] kind = "int"  -> IF x = None THEN None ELSE Compare(op, x, c)
          [] kind = "string" /\ op = "eq"       -> Strict(x, x = c.value.text)
          [] kind = "string" /\ op = "neq"      -> x # c.value.text
          [] kind = "string" /\ op = "contains" -> Strict(x, <<c.value.text, x>> \in Within)
          [] kind = "string" /\ op = "regex"    -> Strict(x, <<c.value.text, x>> \in Matches)
          [] kind = "string" /\ op = "in"       ->
                IF StrArray(c.value) = {} THEN FALSE ELSE Strict(x, x \in StrArray(c.value))
          [] kind = "string" /\ op = "not_in"   ->
                IF StrArray(c.value) = {} THEN TRUE ELSE x # None /\ x \notin StrArray(c.value)

\* groups is NOT NULL, so that @> and && are never NULL.
BuildArrayCondition(c, p) ==
    CASE c.operator = "eq"       -> c.value.text \in p.groups
      [] c.operator = "neq"      -> c.value.text \notin p.groups
      [] c.operator = "contains" -> \E a \in p.groups : <<c.value.text, a>> \in Within
      [] c.operator = "regex"    -> \E a \in p.groups : <<c.value.text, a>> \in Matches
      [] c.operator = "in"       -> StrArray(c.value) \cap p.groups # {}
      [] c.operator = "not_in"   -> StrArray(c.value) \cap p.groups = {}

Clause(c, p, m) ==
    IF c.target = "group_name" THEN BuildArrayCondition(c, p) ELSE BuildCondition(c, p, m)

BuildRuleWhere(tree, p) ==
    IF tree.any THEN TRUE
    ELSE SqlOr({ IF tree.groups[i] = <<>> THEN FALSE
                 ELSE SqlAnd({Clause(tree.groups[i][k], p, tree.mode) :
                                 k \in DOMAIN tree.groups[i]}) : i \in DOMAIN tree.groups })

\* The rows that a WHERE keeps.
Selected(tree, p) == BuildRuleWhere(tree, p) = TRUE
=============================================================================
