\* Two connections, one behind a bastion and one protected by a passphrase.
SPECIFICATION Spec
CONSTANTS
    c1 = c1
    c2 = c2
    c3 = c3
    bastion = bastion
    direct = direct
    h1 = h1
    h2 = h2
    None = None
    Callers = {c1, c2, c3}
    Conns = {bastion, direct}
    Handles = {h1, h2}
    Tunnelled = {bastion}
    Protected = {direct}
    Keyed = {c1, c2}
    MaxConns = 1
SYMMETRY HandleSymmetry
INVARIANTS SamePool NothingLeaks CacheCoherent NoTunnelCut
PROPERTY GoneStaysGone
CHECK_DEADLOCK FALSE
