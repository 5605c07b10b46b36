SPECIFICATION ReadSpec
CONSTANTS
    a1 = a1  a2 = a2  b1 = b1  A = A  B = B
    Events <- MCEvents
    Replicas <- MCReplicas
    ReplicaOf <- MCReplicaOf
    Agent <- SharedAgent
    Session <- SharedSession
    KeyOf <- MCKeyOf
    MaxAttempts = 2
    MaxCrashes = 2
    NoParent = NoParent
    NoReceipt = NoReceipt
    Free = Free
    Readers = {}
    NoView = NoView
INVARIANTS ChainIntact AtMostOnce AckedIsDurable RetryBlame
PROPERTIES TailOnly RecordEnds ImplementsLog
\* Once every event has ended nothing is left to do.
CHECK_DEADLOCK FALSE
