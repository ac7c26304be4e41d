SPECIFICATION Spec
CONSTANTS
    w1 = w1
    w2 = w2
    l1 = l1
    l2 = l2
    m1 = m1
    m2 = m2
    Lead = {l1, l2}
    Member = {m1, m2}
    Rank <- MCRank
    Card = Card
    Free = Free
    Worker = {w1, w2}
    Limit = 1
    MaxDays = 2
    MaxRuns = 3
    MaxCrashes = 1
SYMMETRY Symmetry
INVARIANTS
    NothingTwice
    OneADay
    SlotsAreUsed
CHECK_DEADLOCK FALSE
