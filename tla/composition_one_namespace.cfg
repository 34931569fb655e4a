SPECIFICATION Spec
CONSTANTS
    w1 = w1
    w2 = w2
    NoWorker = NoWorker
    Workers <- Two
    Kinds <- MCKinds
    Objects <- SameName
    Clusters <- AllSameName
    Requests <- OneNamespace
    Deeper <- MCDeeper
    MaxRequests = 3
    MaxChanges = 0
    MaxFaults = 0
    MaxRestarts = 0
INVARIANTS
    StoreUnique
    AnswerComplete
PROPERTIES
    Answered
