CONSTANTS
    c1 = c1
    c2 = c2
    s1 = s1
    s2 = s2
    s3 = s3
    Pool = Pool
    NoConn = NoConn
    NoOwner = NoOwner
    Clients <- MCClients
    Owners <- MCOwners
    Conns <- MCConns2
    PoolMax = 1
    MaxMsgs = 3
    MaxCrashes = 1
    Pipelining = FALSE
    Healthchecks = TRUE
    Writable = {"Begin", "Commit", "Select", "Parse", "Sync"}

SPECIFICATION Spec

INVARIANTS
    TypeOK
    OwnershipExclusive
    IdleConnReusable
    TransactionPinned

SYMMETRY Symmetry

CHECK_DEADLOCK FALSE
