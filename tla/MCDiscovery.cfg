SPECIFICATION DiscoverySpec
CONSTANTS
    Target <- MCTarget
    Batch = {b1, b2}
    Process = {p1, p2}
    TaskLimit = 2
    MaxAttempts = 2
    MaxCommands = 3
    MaxCrashes = 1
SYMMETRY Symmetry
INVARIANTS
    MoneyLeavesAMark

    
CHECK_DEADLOCK FALSE
