CONSTANTS
    Null = Null
    ServerRows <- ValueRows
    ClientFrames = {}
    DescPairs <- AllPairs
INIT Init
NEXT Next
INVARIANT EquivalentMatchesSpec
CHECK_DEADLOCK FALSE
