SPECIFICATION FairSpec
CONSTANTS
    Agents = {a, b}
    Tasks = {t}
    Chans = {c, d}
    Owner <- ReconnectOwner
    Buffer = 1
    MaxConcurrent = 1
    MaxEvents = 3
    None = None
    Orphan = Orphan
PROPERTY EveryCallReturns
CHECK_DEADLOCK FALSE
