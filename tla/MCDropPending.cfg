\* A write queued behind the drop of its table.
CONSTANTS
    Tables = {t1}
    Keys = {k1}
    NoTable = NoTable
    QueueSize = 1
    BatchMaxDocs = 1
    RepairAttempts = 3
    MaxSequence = 3
    MaxFailures = 0
    MaxCrashes = 0
    MaxCloses = 0
    MaxReIndexes = 0
    MaxDrops = 1
CHECK_DEADLOCK FALSE
SPECIFICATION Spec
INVARIANTS
    TrustedIndexCurrent
