SPECIFICATION Spec
CONSTANTS
    Clusters <- MCClusters
    NamespacedKinds <- MCNamespacedKinds
    Requests <- MCRequests
    MaxChanges = 2
    MaxFaults = 1
INVARIANTS
    TypeOK
    CacheTruthful
    NeverBack
PROPERTIES
    ReadsTruly
