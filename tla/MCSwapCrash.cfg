\* A crash between the two renames of a rebuild.
CONSTANTS
    Tables = {t1}
    Keys = {k1, k2}
    NoTable = NoTable
    QueueSize = 1
    BatchMaxDocs = 1
    RepairAttempts = 3
    MaxSequence = 2
    MaxFailures = 0
    MaxCrashes = 1
    MaxCloses = 0
    MaxReIndexes = 1
    MaxDrops = 0
CHECK_DEADLOCK FALSE
SPECIFICATION Spec
INVARIANTS
    TrustedIndexCurrent
