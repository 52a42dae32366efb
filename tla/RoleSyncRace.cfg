SPECIFICATION FairSpec
CONSTANTS
    w1 = w1
    w2 = w2
    l1 = l1
    lo = lo
    hi = hi
    Links = {l1}
    Workers = {w1, w2}
    Players = {1}
    Facts = {lo, hi}
    Unlinked = Unlinked
    NoRow = NoRow
    UserLimit = 1
    MaxGen = 1
    MaxChanges = 1
    MaxErrors = 0
    MaxLost = 0
PROPERTY Converges
CHECK_DEADLOCK FALSE
