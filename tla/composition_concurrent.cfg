SPECIFICATION Spec
CONSTANTS
    w1 = w1
    w2 = w2
    NoWorker = NoWorker
    Workers <- Two
    Kinds <- MCKinds
    Objects <- Distinct
    Clusters <- AllDistinct
    Requests <- BothNamespaces
    Deeper <- MCDeeper
    MaxRequests = 3
    MaxChanges = 1
    MaxFaults = 0
    MaxRestarts = 1
INVARIANTS
    LockDiscipline
PROPERTIES
    Serves
