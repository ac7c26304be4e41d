SPECIFICATION PaidSpec
CONSTANTS
    l1 = l1
    l2 = l2
    Caller = {w1, w2}
    Lead = {l1, l2}
    NoLead = NoLead
    Cost <- MCCost
    PerLead = 2
    Limits = {1, 2}
    Ceilings = {2}
    MaxPeriod = 2
    Target = {x1, x2}
    Worker = {w1, w2}
    MonthLimit = 3
    LowerLimit = 2
    BatchLimit = 2
    MaxRateAttempts = 2
    MonthOf <- MCMonthOf
    MaxDay = 2
    MaxCalls = 4
    MaxLookups = 2
    MaxCrashes = 1
SYMMETRY Symmetry
INVARIANTS
    BooksBalance
    NeverUnderstated
    AccountWithinLimit
    RunWithinCeiling
    EveryCallIsMetered
    NothingRepeatedUnasked
    
CHECK_DEADLOCK FALSE
