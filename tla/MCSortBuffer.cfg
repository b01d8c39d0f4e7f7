CONSTANTS
    NaN = NaN
    Unreadable = Unreadable
    Values <- MCValues
    Names <- MCNames
    RowDesc <- MCRowDesc
    Rows <- MCRows
    OrderBys <- MCOrderBys
    MaxRows = 3
INIT Init
NEXT Next
INVARIANTS
    TypeOK
    SortedResult
    StableResult
CHECK_DEADLOCK FALSE
