SPECIFICATION Spec
CONSTANTS
    Clusters <- MixedAndWebClusters
    Inputs <- MixedInputs
    IgnoreLists <- NoIgnore
    Kinds <- MCKinds
    RelationshipMap <- MCRelationshipMap
    CrdKinds <- MCCrdKinds
    ChildKindLists <- MCChildKindLists
    MaxFaults = 0
INVARIANTS
    RepeatedOnlyFromRoot
    VisitedReported
    RelationsReported
