SPECIFICATION Spec
CONSTANTS
    Agents = {1, 2}
    Infos = {"x"}
    Topologies = {"full"}
    Streams = {1}
    Owner <- MCOwner
    Buffer = 1
    Flushers = {"f", "g"}
    Build <- RingBuild
    NoPlan = NoPlan
    PromptFlush = FALSE
    MaxEvents = 5
INVARIANT StreamsEndOnCurrentList
CHECK_DEADLOCK FALSE
