SPECIFICATION Spec
CONSTANTS
    tab1 = tab1
    tab2 = tab2
    any = any
    top = top
    Tabs = {tab1, tab2}
    Rules = {any, top}
    Anyone = any
    Unconfigured = Unconfigured
    None = None
    MaxVersion = 3
    MaxFaults = 1
    QuickReplies = TRUE
SYMMETRY TabSymmetry
INVARIANTS TypeOK SaveReachesSync TabNotAhead SecondClickRefused
PROPERTY NoSilentClobber
CHECK_DEADLOCK FALSE
