SPECIFICATION Spec
CONSTANTS
    Unset = Unset
    None = None
    Manifests <- MCManifests
    HelmSpecs <- MCHelmSpecs
    Access <- MCAccess
    HandlePVC = TRUE
    AgentImage = FALSE
    MaxWrites = 2
    MaxTroubles = 2
INVARIANTS
    TypeOK
    AdmittedLoads
    CacheRemembers
    NoLostWakeUp
PROPERTIES
    NeverDeletesLive
    ResourcesRestored
    CleanedUp
    AgentComesUp
CHECK_DEADLOCK FALSE
