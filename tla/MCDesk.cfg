SPECIFICATION DeskSpec
CONSTANTS
    Rep = {r1, r2}
    NoRep = NoRep
    Handler = {t1, t2}
    Worker = {x1, x2}
    MaxAttempts = 2
    MaxCrashes = 1
    Message = {r1, r2}
    Listener = {t1, t2}
    None = None
    Arg = {x1, x2}
    MaxToolTurns = 2
    MaxFetches = 1
    MaxBlocks = 2
    MaxRestarts = 1
    Row = {l1, l2, l3}
    Buyer = {x1, x2}
    Nobody = Nobody
    Seller = {r1, r2}
    Asker = {t1, t2}
    MaxRows = 2
    MaxMoves = 3
    Fact <- MCFact
    KindOf <- MCKindOf
    Corrects <- MCCorrects
    Ear = {t1, t2}
    Life = 1
    MaxTime = 2
    MaxItems = 1
    MaxId = 3
    Record = {"camera bid", "fence bid"}
    Url = {"portal"}
    Org = {"city", "county"}
    UrlOf <- MCUrlOf
    OrgOf <- MCOrgOf
    Formula <- MCFormula
    Payload <- MCPayload
SYMMETRY Symmetry
INVARIANTS
    AcceptedIsTrue
    NeverResent
    WordsActOnce
    
    NeverHalved
    CorrectionStands
    OneLeadPerRecord
CHECK_DEADLOCK FALSE
