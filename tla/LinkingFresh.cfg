SPECIFICATION FairSpec
CONSTANTS
    p1 = p1
    p2 = p2
    d1 = d1
    d2 = d2
    o1 = o1
    o2 = o2
    t1 = t1
    t2 = t2
    osu = osu
    taiko = taiko
    Procs = {p1, p2}
    Tokens = {t1}
    Modes = {osu, taiko}
    MaxFact = 1
    MaxFaults = 1
    Discords = {d1}
    Accounts = {o1}
    None = None
    Earlier = {}
PROPERTY FactsCatchUp
CHECK_DEADLOCK FALSE
