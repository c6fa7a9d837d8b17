\* A table of two rows, another and a view on another connection, edited on /data and under URLs of their own.
SPECIFICATION Spec
CONSTANTS
    Places <- MCPlaces
    Columns = {"a"}
    Values = {1, 2}
    Reads <- MCReads
    Size = 2
    Orders <- InOrder
    None = None
    PageSize = 2
    MaxPageSize = 2
    MaxPages = 1
    MaxDistinctValues = 1
    ExportRowCap = 1
    Tables <- MCTables
    Busy <- MCBusy
    MaxWrites = 2
    MaxEdits = 1
INVARIANTS TypeOK BatchIsOwn RightRow
CHECK_DEADLOCK FALSE
