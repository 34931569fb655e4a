SPECIFICATION Spec
CONSTANTS
    Clusters <- MCClusters
    BuiltinKinds <- MCBuiltinKinds
    Files <- MCFiles
    Requests <- MCRequests
    MaxChanges = 2
    MaxFaults = 1
INVARIANTS
    TypeOK
    KindsWhole
    CurrentRegistered
    RelationsInOrder
    LookupRight
    DetailsAsked
    ManTrue
    ManComplete
PROPERTIES
    NothingForgotten
