\* ReIndex and automatic rebuilds while writes go on; no crash, no drop.
CONSTANTS
    Tables = {t1, t2}
    Keys = {k1}
    NoTable = NoTable
    QueueSize = 1
    BatchMaxDocs = 2
    RepairAttempts = 1
    MaxSequence = 3
    MaxFailures = 1
    MaxCrashes = 0
    MaxCloses = 0
    MaxReIndexes = 1
    MaxDrops = 0
CHECK_DEADLOCK FALSE
SPECIFICATION FairSpec
INVARIANTS
    TrustedIndexCurrent
    OutboxCoversIndex
PROPERTIES
    RetriedInSequence
    FlushEnds
    ImplementsIndexedStore
