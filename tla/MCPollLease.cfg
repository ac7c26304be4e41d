SPECIFICATION TimedSpec
CONSTANTS
    w1 = w1
    w2 = w2
    i1 = i1
    i2 = i2
    Worker = {w1, w2}
    NoWorker = NoWorker
    Item = {i1, i2}
    NoItem = NoItem
    NumSources = 2
    SourceOf <- MCSourceOf
    LeaseDuration = 2
    MaxRuntime = 2
    MaxLockWait = 1
    MaxToken = 2
    MaxRuns = 2
INVARIANTS
    ConfirmedByCompleteRun
PROPERTIES
    ConfirmationNeverRegresses
    ActsSerially
    LeaseRunsOut
CHECK_DEADLOCK FALSE
