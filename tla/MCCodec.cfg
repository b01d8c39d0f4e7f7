CONSTANTS
    Null = Null
    ServerRows <- ValueRows
    ClientFrames = {}
    DescPairs <- SameCountPairs
INIT Init
NEXT Next
INVARIANTS
    RoundTrip
    IntColumnsRead
CHECK_DEADLOCK FALSE
