SPECIFICATION LiveSpec
CONSTANTS
    r1 = r1
    r2 = r2
    p1 = p1
    Worker = {w1, w2}
    Reminder = {r2}
    Rep = {p1}
    Owner <- MCOwner
    Via <- MCVia
    Recurring = {r2}
    MaxOccurrences = 2
    MaxTime = 1
    MaxCrashes = 1
INVARIANTS
    AtMostOncePerOccurrence
    OptOutIsHonoured

    
CHECK_DEADLOCK FALSE
