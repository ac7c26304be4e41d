SPECIFICATION LiveSpec
CONSTANTS
    l1 = l1
    l2 = l2
    Tick = {t1}
    Lead = {l1, l2}
    NoLead = NoLead
    Exceptional = {l2}
    RichEnabled = TRUE
    DailyCap = 1
    AbsoluteCap = 2
    MaxRejections = 1
    Forcing = {TRUE, FALSE}
    MaxCrashes = 1
INVARIANTS
    DailyBudget
    NoLeadTwice
PROPERTIES
    EveryLeadSettles
CHECK_DEADLOCK FALSE
