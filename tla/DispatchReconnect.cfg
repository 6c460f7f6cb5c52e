SPECIFICATION Spec
CONSTANTS
    Agents = {a, b}
    Tasks = {t, u}
    Chans = {c, d}
    Owner <- ReconnectOwner
    Buffer = 1
    MaxConcurrent = 1
    MaxEvents = 2
    None = None
    Orphan = Orphan
SYMMETRY Alike
INVARIANTS
    TypeOK
    RunsAtMostOnce
    AnswerIsFromTarget
    RefusedMeansNotRun
CHECK_DEADLOCK FALSE
