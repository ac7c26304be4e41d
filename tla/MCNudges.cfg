SPECIFICATION Spec
CONSTANTS
    c1 = c1
    a1 = a1
    p1 = p1
    r1 = r1
    m = m
    room = room
    dm = dm
    w1 = w1
    w2 = w2
    Card = {c1}
    Ask = {a1}
    Work = {p1}
    Thread = {}
    Person = {r1, m}
    Manager = m
    Nobody = Nobody
    Owner <- MCOwner
    Audience = {room, dm}
    Channel = {room}
    Place <- MCPlace
    Worker = {w1, w2}
    MaxPerDay = 1
    MaxPerPerson = 1
    MaxDays = 2
    MaxRuns = 2
    MaxActs = 1
    MaxCrashes = 1
SYMMETRY Symmetry
INVARIANTS
    OneChanceEach
    CapsHold
    ManagerHearsLast
CHECK_DEADLOCK FALSE
