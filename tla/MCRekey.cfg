SPECIFICATION IngestSpec
CONSTANTS
    Record = {"camera bid", "fence bid", "door bid"}
    Url = {"portal", "own page"}
    Org = {"city", "county"}
    UrlOf <- MCUrlOf
    OrgOf <- MCOrgOf
    Formula <- MCFormula
    Payload <- MCPayload
INVARIANTS
    AlertOnce
CHECK_DEADLOCK FALSE
