SPECIFICATION Spec
CONSTANTS
    w1 = w1
    w2 = w2
    NoWorker = NoWorker
    Workers <- One
    Kinds <- MCKinds
    Objects <- Distinct
    Clusters <- DistinctClusters
    Requests <- BothNamespaces
    Deeper <- MCDeeper
    MaxRequests = 3
    MaxChanges = 1
    MaxFaults = 2
    MaxRestarts = 0
INVARIANTS
    TypeOK
    StoreUnique
PROPERTIES
    Answered
    Serves
