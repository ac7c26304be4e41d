SPECIFICATION Spec
CONSTANTS
    a1 = a1
    a2 = a2
    Action = {a1, a2}
    NoAction = NoAction
    Human = Human
    Lead = {o1, o2}
    NoLead = NoLead
    Handler = {h1, h2}
    Kinds <- MCKinds
    MaxClicks = 3
    MaxCrashes = 1
SYMMETRY Symmetry
INVARIANTS
    OnlyWhatWasApproved
    ItemsTellTheTruth
    CompleteIsWhole
CHECK_DEADLOCK FALSE
