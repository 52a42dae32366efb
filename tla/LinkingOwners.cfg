SPECIFICATION Spec
CONSTANTS
    p1 = p1
    p2 = p2
    d1 = d1
    d2 = d2
    o1 = o1
    o2 = o2
    t1 = t1
    t2 = t2
    osu = osu
    taiko = taiko
    Procs = {p1, p2}
    Tokens = {t1, t2}
    Modes = {osu}
    MaxFact = 0
    MaxFaults = 0
    Discords = {d1, d2}
    Accounts = {o1, o2}
    None = None
    Earlier = {d1, d2}
SYMMETRY Symmetry
INVARIANTS SyncFollows TypeOK OneOwner PairsComeFromFlows OneCallbackPerState
CHECK_DEADLOCK FALSE
