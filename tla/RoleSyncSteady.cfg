SPECIFICATION Spec
CONSTANTS
    w1 = w1
    w2 = w2
    l1 = l1
    lo = lo
    hi = hi
    Links = {l1}
    Workers = {w1, w2}
    Players = {1, 2}
    Facts = {lo, hi}
    Unlinked = Unlinked
    NoRow = NoRow
    UserLimit = 1
    MaxGen = 1
    MaxChanges = 0
    MaxErrors = 1
    MaxLost = 1
SYMMETRY Symmetry
PROPERTY OnlyJustifiedChanges
CHECK_DEADLOCK FALSE
