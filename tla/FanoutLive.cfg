SPECIFICATION FairSpec
CONSTANTS
    Agents = {1, 2}
    Infos = {"x"}
    Topologies = {"full", "sparse"}
    Streams = {1}
    Owner <- MCOwner
    Buffer = 1
    Flushers = {"f"}
    Build <- RingBuild
    NoPlan = NoPlan
    PromptFlush = TRUE
    MaxEvents = 3
PROPERTIES
    StreamsConverge
CHECK_DEADLOCK FALSE
