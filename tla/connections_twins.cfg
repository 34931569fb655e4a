SPECIFICATION Spec
CONSTANTS
    Clusters <- TwinClusters
    Inputs <- TwinInputs
    IgnoreLists <- NoIgnore
    Kinds <- MCKinds
    RelationshipMap <- MCRelationshipMap
    CrdKinds <- MCCrdKinds
    ChildKindLists <- MCChildKindLists
    MaxFaults = 0
INVARIANTS
    RelationsDiscovered
