\* One reader among a writer, a key-value writer and a rebuild.
CONSTANTS
    Ids = {i1, i2}
    Values = {1, 2}
    Zero = 0
    Absent = Absent
    MaxWrites = 2
    MaxRebuilds = 1
    MaxReads = 2
    KeyWritesInRebuild = FALSE
CHECK_DEADLOCK FALSE
SYMMETRY Symmetry
SPECIFICATION Spec
INVARIANTS
    TypeOK
    QuietReadExact
    NoRecordLostOrInvented
    CoverageMeansCurrent
