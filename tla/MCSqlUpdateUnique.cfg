\* Statements, transactions and rebuilds of one table.
CONSTANTS
    Ids = {1, 2}
    Values = {a, b}
    Zero = Zero
    Absent = Absent
    MaxRows = 2
    MaxWrites = 4
    MaxTx = 1
    MaxQueue = 2
    MaxCrashes = 1
    Excursions = {"rows update"}
SYMMETRY Interchangeable
CHECK_DEADLOCK FALSE
SPECIFICATION Spec
INVARIANTS
    UniqueValues
