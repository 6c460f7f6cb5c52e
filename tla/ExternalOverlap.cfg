SPECIFICATION Spec
CONSTANTS
    a1 = a1
    a2 = a2
    c1 = c1
    Agents = {a1}
    Specs = {"x", "y", "bad"}
    Refused = {"bad"}
    Lists <- PlainLists
    Ceilings = {2}
    Off = Off
    Puts = {p1, p2}
    Chans = {c1}
    Owner <- OneEach
    Buffer = 1
    SerialPuts = FALSE
    StreamsEndFirst = TRUE
    MaxEvents = 5
    None = None
    Orphan = Orphan
INVARIANT StreamsEndOnRecord
CHECK_DEADLOCK FALSE
