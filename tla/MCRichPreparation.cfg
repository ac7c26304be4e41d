SPECIFICATION PreparationSpec
CONSTANTS
    Award <- MCAward
    Worker = {w1, w2}
    Account = {a1, a2}
    Person = {p1}
    Fault = {"entity_kind_unsupported"}
    Findable = {"org"}
    CrmAnswer <- MCAnswer
    Mapped = {"account", "territory"}
    Fits = {1}
    Limit = 1
    AwardMax = 1
    Platinum = 0
    WindowEnd = 1
    ConfirmFresh = 0
    ContactFresh = 1
    CrmFresh = 0
    CallFresh = 0
    MaxNow = 1
    MaxRuns = 2
SYMMETRY Symmetry
INVARIANTS
    DraftAssertsWhatHolds
PROPERTIES
    LateAnswerHidesNothing
CHECK_DEADLOCK FALSE
