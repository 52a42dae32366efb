------------------------------- MODULE Access -------------------------------
(***************************************************************************)
(* Who may save the rule of a role link, and for how long: the dashboard   *)
(* hands a manager a short-lived rl_token, the page exchanges it for an    *)
(* iframe session (src/services/rl_token.rs, src/routes/admin.rs), and     *)
(* somebody without a session sends a cookie, about which the Auth Gateway *)
(* is asked each time (src/services/auth.rs).  What a save does is         *)
(* RuleConfig.                                                             *)
(*                                                                         *)
(* One visitor.  A signature stands for what it signs: a token, once made, *)
(* is in passes or sessions for good, and can be sent at any time.         *)
(***************************************************************************)
EXTENDS Integers, FiniteSets

CONSTANTS
    Roles,        \* role links, of guilds of their own
    PassTTL,      \* an rl_token is issued for that long (5 min)
    AllowedSkew,  \* ALLOWED_SKEW_SECS
    SessionTTL,   \* IFRAME_TTL_SECS
    ClockSkew,    \* how far RoleLogic's clock and ours may differ
    MaxClock,     \* bound on the clock
    MaxKeys,      \* bound on the tokens of role links
    MaxPasses,    \* bound on the rl_tokens issued
    MaxVisits     \* bound on the iframe sessions made

ASSUME PassTTLAssumption     == PassTTL \in Nat
ASSUME AllowedSkewAssumption == AllowedSkew \in Nat
ASSUME SessionTTLAssumption  == SessionTTL \in Nat
ASSUME ClockSkewAssumption   == ClockSkew \in 0..AllowedSkew
ASSUME MaxClockAssumption    == MaxClock \in Nat
ASSUME MaxKeysAssumption     == MaxKeys \in Nat

VARIABLES
    clock,
    skew,      \* RoleLogic's clock is ahead by that
    manages,   \* the links whose guild the visitor manages now
    managed,   \* when he last did, by link
    keys,      \* how many tokens of links RoleLogic has made
    signs,     \* the one it signs with, by link, 0 before the link is created
    stored,    \* role_links.api_token, 0 if there is no row
    passes,    \* rl_tokens
    sessions,  \* iframe sessions
    asked,     \* links of cookie requests that the gateway has permitted
    longest    \* the longest it had been since he managed the link, at a save

accessVars ==
    <<clock, skew, manages, managed, keys, signs, stored, passes, sessions, asked, longest>>

\* The longest that a permission may outlast its loss.
Allowance == PassTTL + ClockSkew + AllowedSkew + SessionTTL
LongAgo   == 0 - Allowance - 1

\* key: the token it is signed with; issued: when, by our clock; expires: by
\* RoleLogic's; readOnly: for a developer who looks at the page as the user.
Pass    == [role : Roles, key : 1..MaxKeys, readOnly : BOOLEAN, issued : Int, expires : Int]
Visit == [role : Roles, readOnly : BOOLEAN, expires : Int]

AccessTypeOK ==
    /\ clock \in 0..MaxClock
    /\ skew \in (0 - ClockSkew)..ClockSkew
    /\ manages \in SUBSET Roles
    /\ managed \in [Roles -> Int]
    /\ keys \in 0..MaxKeys
    /\ signs \in [Roles -> 0..MaxKeys]
    /\ stored \in [Roles -> 0..MaxKeys]
    /\ passes \in SUBSET Pass
    /\ sessions \in SUBSET Visit
    /\ asked \in SUBSET Roles
    /\ longest \in Int

AccessInit ==
    /\ clock = 0
    /\ skew \in (0 - ClockSkew)..ClockSkew
    /\ manages \in SUBSET Roles
    /\ managed = [l \in Roles |-> IF l \in manages THEN 0 ELSE LongAgo]
    /\ keys = 0
    /\ signs = [l \in Roles |-> 0]
    /\ stored = [l \in Roles |-> 0]
    /\ passes = {}
    /\ sessions = {}
    /\ asked = {}
    /\ longest = 0

-----------------------------------------------------------------------------
(* Discord, RoleLogic and the clock                                        *)

\* Requests are short: none is under way when the next minute begins.
AccessTick ==
    /\ clock < MaxClock
    /\ asked = {}
    /\ clock' = clock + 1
    /\ managed' = [l \in Roles |-> IF l \in manages THEN clock + 1 ELSE managed[l]]
    /\ UNCHANGED <<skew, manages, keys, signs, stored, passes, sessions, asked, longest>>

Promote(l) ==
    /\ l \notin manages
    /\ manages' = manages \cup {l}
    /\ managed' = [managed EXCEPT ![l] = clock]
    /\ UNCHANGED <<clock, skew, keys, signs, stored, passes, sessions, asked, longest>>

Demote(l) ==
    /\ l \in manages
    /\ manages' = manages \ {l}
    /\ UNCHANGED <<clock, skew, managed, keys, signs, stored, passes, sessions, asked, longest>>

\* The link is created, maybe once more: a token of its own.
Renew(l) ==
    /\ keys < MaxKeys
    /\ keys' = keys + 1
    /\ signs' = [signs EXCEPT ![l] = keys + 1]
    /\ UNCHANGED <<clock, skew, manages, managed, stored, passes, sessions, asked, longest>>

\* POST /register, and DELETE /config.
StoreKey(l) ==
    /\ stored' = [stored EXCEPT ![l] = signs[l]]
    /\ stored' # stored
    /\ UNCHANGED <<clock, skew, manages, managed, keys, signs, passes, sessions, asked, longest>>

DropKey(l) ==
    /\ stored[l] # 0
    /\ stored' = [stored EXCEPT ![l] = 0]
    /\ UNCHANGED <<clock, skew, manages, managed, keys, signs, passes, sessions, asked, longest>>

\* The dashboard embeds the page: for a manager, or read-only for a developer.
IssuePass(l) ==
    /\ signs[l] # 0
    /\ Cardinality(passes) < MaxPasses
    /\ \E ro \in BOOLEAN :
          /\ l \in manages \/ ro
          /\ passes' = passes \cup
                {[role |-> l, key |-> signs[l], readOnly |-> ro, issued |-> clock,
                  expires |-> clock + skew + PassTTL]}
    /\ UNCHANGED <<clock, skew, manages, managed, keys, signs, stored, sessions, asked, longest>>

-----------------------------------------------------------------------------
(* The plugin                                                              *)

\* Mutant: no allowance for the difference of the clocks.
ExpiredPromptly(p) == clock > p.expires

Expired(p) == clock > p.expires + AllowedSkew

\* verify: the signature, then the claims, which must be about the link that
\* the address names.
Verified(p, l) ==
    /\ stored[l] # 0
    /\ p.role = l /\ p.key = stored[l]
    /\ ~Expired(p)

\* Mutant: whoever has a page may write.
MintWritable(p, l) == [role |-> l, readOnly |-> FALSE, expires |-> clock + SessionTTL]

Mint(p, l) == [role |-> l, readOnly |-> p.readOnly, expires |-> clock + SessionTTL]

\* GET of the page with ?rl_token=...
OpenPage(p, l) ==
    /\ Verified(p, l)
    /\ Cardinality(sessions) < MaxVisits
    /\ sessions' = sessions \cup {Mint(p, l)}
    /\ UNCHANGED <<clock, skew, manages, managed, keys, signs, stored, passes, asked, longest>>

\* The request is accepted.
Saves(l) ==
    LET age == clock - managed[l]
    IN  longest' = IF age > longest THEN age ELSE longest

\* A save with "Authorization: Bearer ifs:...".
SaveByBearer(s, l) ==
    /\ clock <= s.expires
    /\ s.role = l
    /\ ~s.readOnly
    /\ stored[l] # 0
    /\ Saves(l)
    /\ UNCHANGED <<clock, skew, manages, managed, keys, signs, stored, passes, sessions, asked>>

\* A save with a cookie: the gateway says who is a manager now, ...
AskGateway(l) ==
    /\ l \in manages
    /\ asked = {}
    /\ asked' = asked \cup {l}
    /\ UNCHANGED <<clock, skew, manages, managed, keys, signs, stored, passes, sessions, longest>>

\* ... and the row is written on its word.
SaveByCookie(l) ==
    /\ l \in asked
    /\ asked' = asked \ {l}
    /\ IF stored[l] # 0 THEN Saves(l) ELSE UNCHANGED longest
    /\ UNCHANGED <<clock, skew, manages, managed, keys, signs, stored, passes, sessions>>

AccessNext ==
    \/ AccessTick
    \/ \E l \in Roles :
          \/ Promote(l) \/ Demote(l) \/ Renew(l) \/ StoreKey(l) \/ DropKey(l)
          \/ IssuePass(l) \/ AskGateway(l) \/ SaveByCookie(l)
          \/ \E p \in passes : OpenPage(p, l)
          \/ \E s \in sessions : SaveByBearer(s, l)

AccessSpec == AccessInit /\ [][AccessNext]_accessVars

-----------------------------------------------------------------------------
(* Properties                                                              *)

\* Whoever saves a rule manages the guild, or did so less than the two
\* lifetimes and the two clock allowances ago: no exchange of a token for
\* another extends that, and none turns a read-only visit into a save.
SavesAreByManagers == longest <= Allowance

\* An rl_token opens its page for as long as it was issued for, whichever of
\* the two clocks is ahead, unless the link has been given another token.
FreshPassOpens ==
    \A p \in passes :
        clock <= p.issued + PassTTL /\ stored[p.role] = p.key => Verified(p, p.role)
=============================================================================
