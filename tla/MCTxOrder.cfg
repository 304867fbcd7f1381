\* A page of the index is read in a transaction that changed the records.
CONSTANTS
    Ids = {1, 2}
    Absent = Absent
    IdField = "ID"
    FieldOrder <- TheFields
    Json <- TheJson
    Indexed = {"A", "B", "ID"}
    Unique = {"ID"}
    Numbers = {"B", "C", "ID"}
    Composites <- TheComposites
    Tables <- TheTables
    Trees <- TheTrees
    Wheres <- TheWheres
    Options <- TheOptions
    OneFields = {"A", "ID"}
    Bounds <- TheBounds
    Starts <- TheStarts
    OrderInTx = TRUE
    MaxRuns = 2
CHECK_DEADLOCK FALSE
SPECIFICATION Spec
INVARIANTS
    SqlRight
