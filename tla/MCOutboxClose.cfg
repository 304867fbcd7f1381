\* Close with drops on the way, and failures that Close does not wait out.
CONSTANTS
    Tables = {t1, t2}
    Keys = {k1}
    NoTable = NoTable
    QueueSize = 1
    BatchMaxDocs = 2
    RepairAttempts = 1
    MaxSequence = 2
    MaxFailures = 0
    MaxCrashes = 0
    MaxCloses = 1
    MaxReIndexes = 0
    MaxDrops = 1
CHECK_DEADLOCK FALSE
SPECIFICATION FairSpec
INVARIANTS
    TypeOK
    QueueAscending
    SuccessIsAcknowledged
PROPERTIES
    CloseEnds
