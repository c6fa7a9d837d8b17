\* A start, requests, a signal and the end of the process, over collectors and pools.
SPECIFICATION ServeFairSpec
CONSTANTS
    closer = closer
    c1 = c1
    r1 = r1
    scan = scan
    tunnelled = tunnelled
    h1 = h1
    h2 = h2
    None = None
    Callers = {closer, c1, r1}
    Closer = closer
    Scanner = scan
    Runners = {r1}
    Conns = {tunnelled}
    Handles = {h1, h2}
    Tunnelled = {tunnelled}
    Protected = {}
    Keyed = {closer, c1}
    MaxConns = 1
INVARIANTS ServeTypeOK NoLostRunner SealedUnderTheKey ShutdownInOrder
PROPERTIES CollectorNeverRevives PoolManagerSpec  
CHECK_DEADLOCK FALSE
