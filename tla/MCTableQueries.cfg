\* Every path of a read answers what the records say.
CONSTANTS
    Ids = {1, 2, 3}
    Absent = Absent
    IdField = "ID"
    FieldOrder <- TheFields
    Json <- TheJson
    Indexed = {"A", "B", "ID"}
    Unique = {"ID"}
    Numbers = {"B", "C", "ID"}
    Composites <- TheComposites
    Tables <- TheTables
    Trees <- TheTrees
    Wheres <- TheWheres
    Options <- TheOptions
    OneFields = {"A", "ID"}
    Bounds <- TheBounds
    Starts <- TheStarts
    OrderInTx = FALSE
    MaxRuns = 2
CHECK_DEADLOCK FALSE
SPECIFICATION Spec
INVARIANTS
    TypeOK
    SelectRight
    PlanCovers
    FinderRight
    SqlRight
