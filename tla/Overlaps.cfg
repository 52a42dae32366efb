SPECIFICATION MCSpec
CONSTANTS
    c1 = c1
    c2 = c2
    ra = ra
    rb = rb
    ma = ma
    mb = mb
    pa = pa
    pb = pb
    managers = managers
    members = members
    Calls = {c1, c2}
    MaxChunks = 3
    NoSession = NoSession
    Replicas = {ra, rb}
    Members = {ma, mb}
    BatchSize = 1
    MaxTime = 3
    MaxSlips = 1
    Pages = {pa, pb}
    Permissions = {managers, members}
    Unset = Unset
    MaxPosts = 2
    MaxLosses = 1
INVARIANTS TypeOK NoStraySession
PROPERTIES ReplacesAtomically CallsEnd OvertakenOnce DueIsTaken PageTellsSetting
CHECK_DEADLOCK FALSE
