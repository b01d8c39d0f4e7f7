CONSTANTS
    Null = Null
    ServerRows <- NullRows
    ClientFrames <- MalformedClientFrames
    DescPairs <- SameCountPairs
INIT Init
NEXT ReceiveNext
INVARIANT PeerFramesDecode
CHECK_DEADLOCK FALSE
