CONSTANTS
    a = a
    b = b
    s1 = s1
    s2 = s2
    NoConn = NoConn
    Callers <- MCCallers
    Conns <- MCConns
    Cfg <- MCCfg
    HealthcheckInterval = 2
    BanTimeout = 2
    MaxTime = 6

SPECIFICATION Spec

INVARIANTS
    IdleHealthchecked

SYMMETRY Symmetry

CHECK_DEADLOCK FALSE
