SPECIFICATION Spec
CONSTANTS
    Clusters <- WebAndReleaseClusters
    Inputs <- WebAndReleaseInputs
    IgnoreLists <- SomeIgnore
    Kinds <- MCKinds
    RelationshipMap <- MCRelationshipMap
    CrdKinds <- MCCrdKinds
    ChildKindLists <- MCChildKindLists
    MaxFaults = 1
INVARIANTS
    TypeOK
    VisitedUnique
    VisitedReported
    RelationsReported
    NothingLeftOut
PROPERTIES
    VisitedMonotone
    Terminates
