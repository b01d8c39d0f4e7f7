CONSTANTS
    c1 = c1
    c2 = c2
    s1 = s1
    s2 = s2
    s3 = s3
    Pool = Pool
    NoConn = NoConn
    NoOwner = NoOwner
    Clients <- MCClients
    Owners <- MCOwners
    Conns <- MCConns2
    PoolMax = 1
    MaxMsgs = 3
    MaxCrashes = 0
    Pipelining = FALSE
    Healthchecks = FALSE
    Writable = {"Begin", "Commit", "Select"}

SPECIFICATION Spec

PROPERTIES
    ImplementsSession
    RepliesDelivered

CHECK_DEADLOCK FALSE
