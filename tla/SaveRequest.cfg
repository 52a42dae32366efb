SPECIFICATION MCSpec
CONSTANTS
    None = None
    BoolOf <- MCBoolOf
    IntOf <- MCIntOf
    Parts <- MCParts
    TextOf <- MCTextOf
    Within <- MCWithin
    Matches <- MCMatches
    Malformed <- MCMalformed
    MaxGroups = 2
    MaxConditions = 2
    la = la
    lb = lb
    Roles = {la, lb}
    PassTTL = 1
    AllowedSkew = 1
    SessionTTL = 1
    ClockSkew = 1
    MaxClock = 5
    MaxKeys = 2
    MaxPasses = 1
    MaxVisits = 1
INVARIANTS EvaluatorsAgree SaveIsStable FailsClosed
    SavesAreByManagers FreshPassOpens
CHECK_DEADLOCK FALSE
