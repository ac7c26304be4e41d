SPECIFICATION Spec
CONSTANTS
    l1 = l1
    l2 = l2
    Tick = {t1, t2}
    Lead = {l1, l2}
    NoLead = NoLead
    Exceptional = {}
    RichEnabled = TRUE
    DailyCap = 1
    AbsoluteCap = 2
    MaxRejections = 2
    Forcing = {FALSE}
    MaxCrashes = 1
SYMMETRY Symmetry
INVARIANTS
    AtMostOncePerKey
    LandedIsRemembered
PROPERTIES
    OutcomeStays
CHECK_DEADLOCK FALSE
