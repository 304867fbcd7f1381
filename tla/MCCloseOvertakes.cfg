\* Close between two writes to a table.
CONSTANTS
    Tables = {t1}
    Keys = {k1}
    NoTable = NoTable
    QueueSize = 1
    BatchMaxDocs = 1
    RepairAttempts = 3
    MaxSequence = 2
    MaxFailures = 0
    MaxCrashes = 0
    MaxCloses = 1
    MaxReIndexes = 0
    MaxDrops = 0
CHECK_DEADLOCK FALSE
SPECIFICATION Spec
PROPERTIES
    RetriedInSequence
