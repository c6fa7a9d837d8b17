\* The end of the process against the requests in flight.
SPECIFICATION ServeSpec
CONSTANTS
    closer = closer
    c1 = c1
    r1 = r1
    scan = scan
    tunnelled = tunnelled
    h1 = h1
    h2 = h2
    None = None
    Callers = {closer, c1, r1}
    Closer = closer
    Scanner = scan
    Runners = {r1}
    Conns = {tunnelled}
    Handles = {h1, h2}
    Tunnelled = {tunnelled}
    Protected = {}
    Keyed = {closer, c1}
    MaxConns = 1
INVARIANT RequestsDrain
CHECK_DEADLOCK FALSE
