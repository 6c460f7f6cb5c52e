SPECIFICATION Spec
CONSTANTS
    Ids = {1, 2, 3, 4}
    Zones = {0, 1, 2}
    Placements <- MCPlacements
    Zonings <- MCZonings
    Weights <- MCWeights
    Configs <- MCConfigs
    NoPlan = NoPlan
INVARIANTS
    TypeOK
    ReplicasAgree
    StronglyConnected
    ZonePairsObserved
    ChordsAreBest
