SPECIFICATION Spec
CONSTANTS
    Agents = {1, 2, 3}
    Infos = {"x"}
    Topologies = {"full", "sparse"}
    Streams = {1}
    Owner <- MCOwner
    Buffer = 1
    Flushers = {"f"}
    Build <- RingBuild
    NoPlan = NoPlan
    PromptFlush = TRUE
    MaxEvents = 4
INVARIANTS
    TypeOK
    StreamsEndOnCurrentList
    PlanCoversRegistry
    RegisterSeesItsPlan
CHECK_DEADLOCK FALSE
