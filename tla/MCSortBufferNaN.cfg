CONSTANTS
    NaN = NaN
    Unreadable = Unreadable
    Values <- MCValues
    Names <- MCNames
    RowDesc <- MCRowDesc
    Rows <- MCRowsNaN
    OrderBys <- MCOrderBys
    MaxRows = 3
INIT Init
NEXT Next
INVARIANT
    SortedResult
CHECK_DEADLOCK FALSE
