SPECIFICATION Spec
CONSTANTS
    Clusters <- MCClusters
    BuiltinKinds <- MCBuiltinKinds
    Files <- RepositoryFiles
    Requests <- MCRequests
    MaxChanges = 0
    MaxFaults = 0
INVARIANTS
    EndpointsKept
