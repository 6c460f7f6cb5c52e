\* Two streams of one agent, as a reconnect overlaps them, and agents that change address.
SPECIFICATION Spec
CONSTANTS
    Agents = {1, 2}
    Infos = {"x", "y"}
    Topologies = {"full"}
    Streams = {1, 2}
    Owner <- BothOfOne
    Buffer = 1
    Flushers = {"f"}
    Build <- RingBuild
    NoPlan = NoPlan
    PromptFlush = TRUE
    MaxEvents = 3
INVARIANT StreamsEndOnCurrentList
CHECK_DEADLOCK FALSE
