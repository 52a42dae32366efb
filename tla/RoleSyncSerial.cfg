SPECIFICATION FairSpec
CONSTANTS
    w1 = w1
    w2 = w2
    l1 = l1
    lo = lo
    hi = hi
    Links = {l1}
    Workers = {w1}
    Players = {1}
    Facts = {lo, hi}
    Unlinked = Unlinked
    NoRow = NoRow
    UserLimit = 1
    MaxGen = 2
    MaxChanges = 2
    MaxErrors = 1
    MaxLost = 1
INVARIANTS TypeOK MirrorTracksRemote
PROPERTIES Converges OrphansGo
CHECK_DEADLOCK FALSE
