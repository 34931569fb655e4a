SPECIFICATION Spec
CONSTANTS
    Clusters <- AnyCluster
    CompositionMaps <- AnyMap
    KnownKinds <- OneUnknown
    Roots <- AnyRoot
    MaxClusters = 2
    MaxMissed = 2
INVARIANTS
    OnlyDescendants
    StoreFaithful
    NoneTwice
    ChainFollowsOwners
