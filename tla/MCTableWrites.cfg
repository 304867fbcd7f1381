\* Statements, transactions and rebuilds of one table.
CONSTANTS
    Ids = {1, 2}
    Values = {a}
    Zero = Zero
    Absent = Absent
    MaxRows = 2
    MaxWrites = 4
    MaxTx = 1
    MaxQueue = 2
    MaxCrashes = 1
    Excursions = {}
CHECK_DEADLOCK FALSE
SPECIFICATION Spec
INVARIANTS
    TypeOK
    UniqueValues
    TrustedIndexExact
    DebtsCoverChanges
    BatchMapCurrent
    CoverageCounts
    AutomaticIdsFresh
