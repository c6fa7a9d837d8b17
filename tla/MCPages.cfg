\* A table of up to four rows, read in pages of two from any slot on, and changed meanwhile.
SPECIFICATION Spec
CONSTANTS
    Places <- MCPlace
    Columns = {"a"}
    Values = {1, 2, 3, 4}
    Reads <- MCReads
    Size = 4
    Orders <- FromAnySlot
    None = None
    PageSize = 2
    MaxPageSize = 2
    MaxPages = 2
    MaxDistinctValues = 3
    ExportRowCap = 3
    Tables <- MCTables
    Busy <- MCBusy
    MaxWrites = 2
    MaxEdits = 0
INVARIANTS LeftOutIsSaid EndOfDataIsAll
CHECK_DEADLOCK FALSE
