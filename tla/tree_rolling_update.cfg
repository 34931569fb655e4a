SPECIFICATION Spec
CONSTANTS
    Clusters <- RollingUpdate
    CompositionMaps <- OneMap
    KnownKinds <- AllKnown
    Roots <- DeploymentRoot
    MaxClusters = 1
    MaxMissed = 0
INVARIANTS
    FollowsOwners
