\* Two requests of any users against each other.
SPECIFICATION Spec
CONSTANTS
    u1 = u1
    u2 = u2
    root = root
    other = other
    t1 = t1
    t2 = t2
    q1 = q1
    q2 = q2
    None = None
    Ids = {u1, u2}
    Emails = {root, other}
    AdminEmail = root
    Tokens = {t1, t2}
    Requests = {q1, q2}
SYMMETRY AccountSymmetry
INVARIANTS NoOrphanSession FlagFollowsWriter
PROPERTIES DeadStaysDead
CHECK_DEADLOCK FALSE
