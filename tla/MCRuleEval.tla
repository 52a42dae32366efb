----------------------------- MODULE MCRuleEval -----------------------------
(***************************************************************************)
(* Saves of every shape against players of every shape: a body is posted,  *)
(* the validator stores a tree or refuses, and both evaluators look at the *)
(* same player.                                                            *)
(***************************************************************************)
EXTENDS RuleEval, TLC

VARIABLES body, player, tree

vars == <<body, player, tree>>

Texts == {"", " ", "yes", "2", "J", "JP", "US", "US,JP", "("}

MCBoolOf   == [s \in Texts |-> IF s = "yes" THEN TRUE ELSE None]
MCIntOf    == [s \in Texts |-> IF s = "2" THEN 2 ELSE None]
MCParts    == [s \in Texts |-> CASE s \in {"", " "} -> <<>>
                                 [] s = "US,JP" -> <<"US", "JP">>
                                 [] OTHER -> <<s>>]
MCTextOf   == [h \in {-1, 4, 5} |-> CASE h = -1 -> "-0.5" [] h = 4 -> "2" [] h = 5 -> "2.5"]
MCWithin   == {<<s, s>> : s \in Texts} \cup {<<"J", "JP">>}
MCMatches  == {<<"J", "JP">>, <<"JP", "JP">>, <<"US", "US">>, <<"2", "2">>}
MCMalformed == {"("}

\* Items that a JSON list holds: texts, as the page sends them.  The validator
\* lets a list of numbers pass, too (README, Departures).
Listed == {Null, Text(""), Text("JP"), Text("US")}
Ages   == {None, 0, 3, 4, 5}  \* how long ago the last visit was, in half days

Values == {Null, Bool(TRUE), Bool(FALSE), Num(-1), Num(4), Num(5)}
          \cup {Text(s) : s \in Texts}
          \cup {List(<<v>>) : v \in Listed} \cup {List(<<v, Text("JP")>>) : v \in Listed}

\* Every target with every operator and every value; a scalar where a list is
\* asked for is an item of its own, and so must be one of Listed ...
Single == {c \in [target : Targets, operator : Operators, value : Values, value_end : {Null, Num(4)}] :
              (c.operator \in {"in", "not_in"} /\ c.value.kind \in {"bool", "num"})
                 => c.value \in Listed}

\* ... and rules of several conditions and groups.
Part  == {[target |-> "global_rank", operator |-> "lte", value |-> Num(4), value_end |-> Null],
          [target |-> "play_count", operator |-> "between", value |-> Num(4), value_end |-> Num(4)],
          [target |-> "country_code", operator |-> "neq", value |-> Text("US"), value_end |-> Null],
          [target |-> "country_code", operator |-> "not_in", value |-> Text("JP"), value_end |-> Null],
          [target |-> "group_name", operator |-> "in", value |-> Text("US,JP"), value_end |-> Null]}

Groups == {<<>>, <<<<>>>>} \cup {<<<<c>>>> : c \in Single}
          \cup {<<<<c, d>>>> : c \in Part, d \in Part}
          \cup {<<<<c>>, <<d>>>> : c \in Part, d \in Part}
          \cup {<<<<c, c, c>>>> : c \in Part} \cup {<<<<c>>, <<c>>, <<c>>>> : c \in Part}

Body(gs)        == [any |-> FALSE, mode |-> "", groups |-> gs]
Posted(a, m, c) == [any |-> a, mode |-> m, groups |-> <<<<c>>>>]

Bodies == {Body(gs) : gs \in Groups}
          \cup {Posted(a, m, c) : a \in BOOLEAN, m \in {"taiko", "ctb", "drums"}, c \in Part}

Modes == {"osu", "taiko", "fruits", "mania"}

Base == [supporter |-> TRUE, badges |-> 0, age |-> None, country |-> None, username |-> "2",
         groups |-> {}, stats |-> [m \in Modes |-> None]]

Fan(c, gs, s) == [Base EXCEPT !.country = c, !.groups = gs, !.stats["osu"] = s]
Guest(a, b)   == [Base EXCEPT !.age = a, !.badges = b, !.supporter = (b = 0)]
Drummer       == [Base EXCEPT !.stats["taiko"] = [rank |-> 1, plays |-> 2]]

Players ==
    {Fan(c, gs, s) : c \in {None, "JP", "US"}, gs \in SUBSET {"JP", "US"},
                     s \in {None, [rank |-> None, plays |-> 0], [rank |-> 2, plays |-> 2]}}
    \cup {Guest(a, b) : a \in Ages, b \in {0, 2}}
    \cup {Drummer}

Unconfigured == [any |-> FALSE, mode |-> "osu", groups |-> <<>>]

ASSUME RefusalAssumption == None # Unconfigured
ASSUME RowAssumption == None # [rank |-> None, plays |-> 0]
ASSUME InstanceAssumption == Texts \subseteq DOMAIN Parts /\ {-1, 4, 5} \subseteq DOMAIN TextOf

Init == /\ body \in Bodies
        /\ player \in Players
        /\ tree = Unconfigured

Save == /\ tree = Unconfigured
        /\ ParseRuleTree(body) # None
        /\ tree' = ParseRuleTree(body)
        /\ UNCHANGED <<body, player>>

Next == Save

Spec == Init /\ [][Next]_vars

-----------------------------------------------------------------------------
(* Properties                                                              *)

\* rule_sql.rs "pushes the same predicates down into Postgres": for whatever
\* the validator lets through, the two evaluators agree on every player.
EvaluatorsAgree == Evaluate(tree, FactsOf(player, tree.mode)) <=> Selected(tree, player)

\* An operator that its target knows, and texts to choose from in a list.
WellFormedCondition(c) ==
    /\ c.target \in Targets
    /\ c.operator \in ValidFor[TargetKind[c.target]]
    /\ c.value.text \in STRING /\ c.value.half \in Int
    /\ c.operator \in {"in", "not_in"} =>
          /\ \A v \in Items(c.value) : v.kind = "text" => v = Text(v.text)
          /\ StrArray(c.value) # {}

WellFormed(t) ==
    /\ t.any \in BOOLEAN /\ t.mode \in Modes
    /\ \A i \in DOMAIN t.groups : \A k \in DOMAIN t.groups[i] : WellFormedCondition(t.groups[i][k])

\* What was saved is well formed, and what comes back to the page can be saved
\* again, and is then the same rule.
SaveIsStable == tree # Unconfigured => WellFormed(tree) /\ ParseRuleTree(tree) = tree

\* What a row of osu_users holds: the columns that are never NULL, and a last
\* visit that is past.
Recorded(p) ==
    /\ p.supporter \in BOOLEAN
    /\ p.badges \in Nat
    /\ p.age = None \/ p.age \in Nat
    /\ \A m \in Modes : p.stats[m] # None => p.stats[m].plays \in Nat

\* Data that a player may lack: a NULL, or no group at all.  A player without
\* a row of statistics lacks a rank, but no counter: his counters are 0.
Missing(c, f) == CASE c.target = "days_since_last_visit" -> f.last_visit = None
                   [] c.target = "global_rank" -> f.global_rank = None
                   [] c.target = "country_code" -> f.country_code = None /\ c.operator # "neq"
                   [] c.target = "group_name" -> f.groups = {} /\ c.operator \notin {"neq", "not_in"}
                   [] OTHER -> FALSE

AsksForMissing(t, p) ==
    /\ ~t.any
    /\ \A i \in DOMAIN t.groups : \E k \in DOMAIN t.groups[i] : Missing(t.groups[i][k], FactsOf(p, t.mode))

\* Conditions that want of a datum may fulfil: the negations that let a missing
\* text or group through, and whatever a counter of 0 fulfils and a higher one
\* need not.
Lenient(c) == \/ c.target = "country_code" /\ c.operator = "neq"
              \/ c.target = "group_name" /\ c.operator \in {"neq", "not_in"}
              \/ c.target = "play_count" /\ c.operator \notin {"gt", "gte"}

LenientRule(t) == \E i \in DOMAIN t.groups : \E k \in DOMAIN t.groups[i] : Lenient(t.groups[i][k])

SameProfile(q, p) == q.supporter = p.supporter /\ q.badges = p.badges /\ q.username = p.username

\* q is p, but that some of what a rule for mode m reads is not known of q.
LessKnown(q, p, m) == /\ SameProfile(q, p)
                      /\ q.age \in {p.age, None} /\ q.country \in {p.country, None}
                      /\ q.groups \subseteq p.groups
                      /\ q.stats[m] \in {p.stats[m], None}

\* q is p, but that p has no row for mode m, and q one that tells nothing.
ZeroRow(q, p, m) == /\ SameProfile(q, p) /\ q.age = p.age /\ q.country = p.country /\ q.groups = p.groups
                    /\ p.stats[m] = None /\ q.stats[m] = [rank |-> None, plays |-> 0]

\* "NULL-handling mirrors the Rust evaluator's fail-closed behavior"
\* (rule_sql.rs), as far as it goes: the unconfigured rule is never saved; a
\* player of whom a datum is missing that every group asks for gets nothing;
\* nobody gains the role by a datum that is lost, a whole row of statistics
\* included, unless the rule is lenient; and an absent row counts as one of
\* zeros, so that `play_count < 5` grants to a player whose statistics were
\* never fetched.
FailsClosed ==
    LET m     == tree.mode
        Rust(p) == Evaluate(tree, FactsOf(p, m))
        Sql(p)  == Selected(tree, p)
    IN  /\ ParseRuleTree(body) # Unconfigured
        /\ AsksForMissing(tree, player) => ~Rust(player) /\ ~Sql(player)
        /\ ~LenientRule(tree) =>
              \A q \in Players :
                 LessKnown(q, player, m) => (Rust(q) => Rust(player)) /\ (Sql(q) => Sql(player))
        /\ \A q \in Players :
              ZeroRow(q, player, m) => (Rust(q) <=> Rust(player)) /\ (Sql(q) <=> Sql(player))
=============================================================================
