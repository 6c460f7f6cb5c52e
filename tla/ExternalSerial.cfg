SPECIFICATION FairSpec
CONSTANTS
    a1 = a1
    a2 = a2
    c1 = c1
    Agents = {a1}
    Specs = {"x", "y", "bad"}
    Refused = {"bad"}
    Lists <- MixedLists
    Ceilings = {1, 2}
    Off = Off
    Puts = {p1}
    Chans = {c1}
    Owner <- OneEach
    Buffer = 1
    SerialPuts = TRUE
    StreamsEndFirst = TRUE
    MaxEvents = 5
    None = None
    Orphan = Orphan
INVARIANTS
    TypeOK
    StreamsEndOnRecord
PROPERTIES
    ChecksStopOnlyOnRequest
    AgentsConverge
CHECK_DEADLOCK FALSE
