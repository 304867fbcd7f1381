\* Crashes and failures; every failed batch is retried, none is rebuilt.
CONSTANTS
    Tables = {t1, t2}
    Keys = {k1}
    NoTable = NoTable
    QueueSize = 1
    BatchMaxDocs = 2
    RepairAttempts = 3
    MaxSequence = 3
    MaxFailures = 1
    MaxCrashes = 1
    MaxCloses = 0
    MaxReIndexes = 0
    MaxDrops = 0
CHECK_DEADLOCK FALSE
SPECIFICATION FairSpec
INVARIANTS
    TrustedIndexCurrent
    OutboxCoversIndex
    PendingCounts
PROPERTIES
    RetriedInSequence
    ImplementsIndexedStore
