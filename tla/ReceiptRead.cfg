SPECIFICATION MCSpec
CONSTANTS
    a1 = a1  a2 = a2  b1 = b1  A = A  B = B
    Events <- MCEvents
    Replicas <- MCReplicas
    ReplicaOf <- MCReplicaOf
    Agent <- MCAgent
    Session <- MCSession
    KeyOf <- MCKeyOf
    MaxAttempts = 2
    MaxCrashes = 1
    NoParent = NoParent
    NoReceipt = NoReceipt
    Free = Free
    Readers <- MCReaders
    NoView = NoView
    Stranger = Stranger
    NotHex = NotHex
    None = None
    NoFile = NoFile
    NoReport = NoReport
    Garbage = Garbage
    MaxEdits = 3
    ListLimit = 1
    OtherRuns <- MCOtherRuns
    Counts = {1, 2}
INVARIANTS ReplyCoherent GapFlagged AuditSound
\* Once every event has ended nothing is left to do.
CHECK_DEADLOCK FALSE
