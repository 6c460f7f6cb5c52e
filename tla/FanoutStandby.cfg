SPECIFICATION Spec
CONSTANTS
    Agents = {1, 2}
    Infos = {"x"}
    Topologies = {"full"}
    Streams = {1}
    Owner <- MCOwner
    Buffer = 1
    Flushers = {"f"}
    Build <- RingBuild
    NoPlan = NoPlan
    PromptFlush = TRUE
    MaxEvents = 5
INVARIANT StandbyHoldsNoAgents
CHECK_DEADLOCK FALSE
